---- MODULE Spec2Model ----
(***************************************************************************)
(* A model of cmm_measurement_parser.py: the CMMParser instance, its       *)
(* parse_lines_to_dataframe and parse_xy_coordinates methods, the          *)
(* create_summary_by_element aggregation and the process_cmm_data          *)
(* pipeline.                                                               *)
(*                                                                         *)
(* Text.  A line is a sequence of characters.  A character is a string: an *)
(* ASCII character is itself ("X", "1", " "), any other character is named *)
(* by its code point ("U+5186" is the circle sign of the report's tags).   *)
(* Numbers are fixed-point integers in units of 10^-Scale.                 *)
(***************************************************************************)
EXTENDS Integers, Sequences, FiniteSets, TLC

(***************************************************************************)
(* Characters and character classes of the regular expressions.  A class   *)
(* is a set of characters, or (neg) all characters but those of a set.     *)
(***************************************************************************)
SP == " "

DigitChars == <<"0", "1", "2", "3", "4", "5", "6", "7", "8", "9">>

Digits == {DigitChars[i] : i \in 1..10}

\* \s, restricted to the blank (the only white space of the modelled text)
Space == [neg |-> FALSE, of |-> {SP}]

\* [^\s]
NotSpace == [neg |-> TRUE, of |-> {SP}]

\* \d
Digit == [neg |-> FALSE, of |-> Digits]

\* [-\d.]
NumChar == [neg |-> FALSE, of |-> Digits \cup {"-", "."}]

\* [\d.]
DotDigit == [neg |-> FALSE, of |-> Digits \cup {"."}]

\* \w: every character of the modelled text is a letter, a digit or "_",
\* except the ASCII punctuation listed here
Word == [neg |-> TRUE, of |-> {" ", "-", ".", "=", "(", ")", "/", "*"}]

InClass(c, cls) == (c \in cls.of) # cls.neg

IsDigit(c) == InClass(c, Digit)

\* the position after the longest run of characters of cls that starts at i
RunEnd(s, i, cls) ==
    CHOOSE j \in i..(Len(s) + 1) :
        /\ \A k \in i..(j - 1) : InClass(s[k], cls)
        /\ j = Len(s) + 1 \/ ~InClass(s[j], cls)

\* the literal lit stands at position i of s
HasAt(s, i, lit) ==
    /\ i >= 1
    /\ i + Len(lit) - 1 <= Len(s)
    /\ SubSeq(s, i, i + Len(lit) - 1) = lit

\* a literal occurs in s
Contains(s, lit) == \E i \in 1..(Len(s) - Len(lit) + 1) : HasAt(s, i, lit)

\* the last position of s that holds no blank (s has one from position a on)
LastNonSpace(s, a) ==
    CHOOSE j \in a..Len(s) :
        /\ s[j] # SP
        /\ \A k \in (j + 1)..Len(s) : s[k] = SP

\* str.strip()
Strip(s) ==
    IF RunEnd(s, 1, Space) > Len(s) THEN <<>>
    ELSE SubSeq(s, RunEnd(s, 1, Space), LastNonSpace(s, RunEnd(s, 1, Space)))

(***************************************************************************)
(* Numbers.                                                                *)
(***************************************************************************)
\* number of fractional decimal digits a value keeps
Scale == 3

RECURSIVE Pow10(_)
Pow10(n) == IF n = 0 THEN 1 ELSE 10 * Pow10(n - 1)

DigitValue(c) == (CHOOSE i \in 1..10 : DigitChars[i] = c) - 1

RECURSIVE IntOf(_)
\* int() of a run of digits
IntOf(ds) ==
    IF ds = <<>> THEN 0
    ELSE IntOf(SubSeq(ds, 1, Len(ds) - 1)) * 10 + DigitValue(ds[Len(ds)])

Abs(x) == IF x < 0 THEN -x ELSE x

\* float() accepts the token: an optional sign, digits with at most one
\* point, at least one digit.  Any other token of [-\d.]+ raises ValueError.
FloatOk(t) ==
    LET body == IF t # <<>> /\ t[1] = "-" THEN Tail(t) ELSE t
    IN  /\ body # <<>>
        /\ \A i \in 1..Len(body) : InClass(body[i], DotDigit)
        /\ Cardinality({i \in 1..Len(body) : body[i] = "."}) <= 1
        /\ \E i \in 1..Len(body) : IsDigit(body[i])

\* the position of the point of an unsigned number, the position after its
\* last digit if it has none
PointAt(body) ==
    IF \A i \in 1..Len(body) : body[i] # "." THEN Len(body) + 1
    ELSE CHOOSE i \in 1..Len(body) : body[i] = "."

\* the first Scale fractional digits, as an integer of Scale digits
Fraction(fp) ==
    IF Len(fp) > Scale THEN IntOf(SubSeq(fp, 1, Scale))
    ELSE IntOf(fp) * Pow10(Scale - Len(fp))

\* the value of an unsigned number
Magnitude(body) ==
    IntOf(SubSeq(body, 1, PointAt(body) - 1)) * Pow10(Scale)
    + Fraction(SubSeq(body, PointAt(body) + 1, Len(body)))

\* float() of an accepted token, in units of 10^-Scale (the modelled text
\* carries at most Scale fractional digits)
FloatOf(t) == IF t[1] = "-" THEN -Magnitude(Tail(t)) ELSE Magnitude(t)

(***************************************************************************)
(* The literals of the patterns.                                           *)
(***************************************************************************)
\* header_pattern of parse_lines_to_dataframe: CARL ZEISS, CALYPSO, ...
HeaderLiteralsDF ==
    << <<"C", "A", "R", "L", " ", "Z", "E", "I", "S", "S">>,
       <<"C", "A", "L", "Y", "P", "S", "O">>,
       <<"U+6E2C", "U+5B9A", "U+FF8C", "U+FF9F", "U+FF97", "U+FF9D">>,
       <<"A", "C", "C", "U", "R", "A">>,
       <<"U+540D", "U+524D">>,
       <<"U+8AAC", "U+660E">>,
       <<"U+5B9F", "U+6E2C", "U+5024">>,
       <<"U+57FA", "U+6E96", "U+5024">>,
       <<"U+4E0A", "U+8A31", "U+5BB9", "U+5DEE">>,
       <<"U+4E0B", "U+8A31", "U+5BB9", "U+8AA4", "U+5DEE">>,
       <<"U+FF8B", "U+FF7D", "U+FF84", "U+FF78", "U+FF9E", "U+FF97", "U+FF91">> >>

\* header_pattern of parse_xy_coordinates: the same literals and eight more
\* (..., Master, 2025<year>, 20190821, ...)
HeaderLiteralsXY ==
    HeaderLiteralsDF \o
    << <<"U+FF7A", "U+FF9D", "U+FF8A", "U+FF9F", "U+FF78", "U+FF84", "U+FF8C",
         "U+FF9F", "U+FF98", "U+FF9D", "U+FF84", "U+FF71", "U+FF73", "U+FF84">>,
       <<"U+FF75", "U+FF8D", "U+FF9F", "U+FF9A", "U+FF70", "U+FF80">>,
       <<"U+65E5", "U+4ED8">>,
       <<"U+FF8A", "U+FF9F", "U+FF70", "U+FF84", "N", "o">>,
       <<"M", "a", "s", "t", "e", "r">>,
       <<"2", "0", "2", "5", "U+5E74">>,
       <<"2", "0", "1", "9", "0", "8", "2", "1">>,
       <<"U+652F", "U+6301", "U+677F">> >>

\* the measurement-type alternation, in the order of the pattern: circle
\* (least squares), plane (least squares), line (least squares), basic
\* coordinate system, 3D line, point, 2D distance
TypeLabels ==
    << <<"U+5186", "(", "U+6700", "U+5C0F", "U+4E8C", "U+4E57", "U+6CD5", ")">>,
       <<"U+5E73", "U+9762", "(", "U+6700", "U+5C0F", "U+4E8C", "U+4E57", "U+6CD5", ")">>,
       <<"U+76F4", "U+7DDA", "(", "U+6700", "U+5C0F", "U+4E8C", "U+4E57", "U+6CD5", ")">>,
       <<"U+57FA", "U+672C", "U+5EA7", "U+6A19", "U+7CFB">>,
       <<"3", "U+6B21", "U+5143", "U+76F4", "U+7DDA">>,
       <<"U+70B9">>,
       <<"2", "D", "U+8DDD", "U+96E2">> >>

\* the point-count label, the two side markers, the value sign of a
\* coordinate name, the form-error label, the two tag prefixes
PointCountLabel == <<"U+70B9", "U+6570">>
Inside          == <<"U+5185", "U+5074">>
Outside         == <<"U+5916", "U+5074">>
ValueSign       == "U+5024"
FormLabel       == <<"U+5F62", "U+72B6", "=">>
CirclePrefix    == <<"U+5186">>
DPrefix         == <<"U+FF44", "-">>
NotApplicable   == <<"N", "/", "A">>

(***************************************************************************)
(* Regular expressions.  A pattern is a sequence of items, matched from    *)
(* left to right, every run as long as it can be:                          *)
(*   lit    one of the literals lits, the first that stands here           *)
(*   opt    the same, or nothing                                           *)
(*   run    at least min characters of the class cls                       *)
(*   one    one character of the class cls                                 *)
(*   or     one of the patterns pats, the first that matches here          *)
(*   skip   .*? : as few characters as let the rest of the pattern match   *)
(*   rest   .*  : the rest of the line                                     *)
(*   bound  \b before a word character                                     *)
(*   end    $                                                              *)
(* An item with cap set is a group: the match holds its text.              *)
(***************************************************************************)
Item(kind, cls, lits, min, pats, cap) ==
    [kind |-> kind, cls |-> cls, lits |-> lits, min |-> min, pats |-> pats, cap |-> cap]

Lit(l)          == Item("lit", Space, <<l>>, 0, <<>>, FALSE)
OneOf(ls)       == Item("lit", Space, ls, 0, <<>>, TRUE)
Optional(ls)    == Item("opt", Space, ls, 0, <<>>, TRUE)
Run(cls, min)   == Item("run", cls, <<>>, min, <<>>, FALSE)
Capture(cls, min) == Item("run", cls, <<>>, min, <<>>, TRUE)
One(cls)        == Item("one", cls, <<>>, 0, <<>>, FALSE)
OneGroup(cls)   == Item("one", cls, <<>>, 0, <<>>, TRUE)
OrGroup(pats)   == Item("or", Space, <<>>, 0, pats, TRUE)
Skip            == Item("skip", Space, <<>>, 0, <<>>, FALSE)
Rest            == Item("rest", Space, <<>>, 0, <<>>, TRUE)
Bound           == Item("bound", Space, <<>>, 0, <<>>, FALSE)
End             == Item("end", Space, <<>>, 0, <<>>, FALSE)

\* a failed match
NoMatch == [ok |-> FALSE, end |-> 0, g |-> <<>>]

\* the literals of ls that stand at position i
LitsAt(line, i, ls) == {n \in 1..Len(ls) : HasAt(line, i, ls[n])}

\* the position after the first literal of ls that stands at i (LitsAt is not empty)
FirstLitEnd(line, i, ls) ==
    i + Len(ls[CHOOSE n \in LitsAt(line, i, ls) : \A m \in LitsAt(line, i, ls) : n <= m])

Lowest(S) == CHOOSE x \in S : \A y \in S : x <= y

RECURSIVE MatchFrom(_, _, _, _, _)
RECURSIVE ItemEnd(_, _, _)
\* the items of pat from the k-th on match line from position i on, after
\* the groups g
MatchFrom(line, i, pat, k, g) ==
    IF k > Len(pat) THEN [ok |-> TRUE, end |-> i, g |-> g]
    ELSE IF pat[k].kind = "skip"
         THEN IF \E q \in i..(Len(line) + 1) : MatchFrom(line, q, pat, k + 1, g).ok
              THEN MatchFrom(line,
                             Lowest({q \in i..(Len(line) + 1) :
                                        MatchFrom(line, q, pat, k + 1, g).ok}),
                             pat, k + 1, g)
              ELSE NoMatch
    ELSE IF ItemEnd(line, i, pat[k]) = 0 THEN NoMatch
    ELSE MatchFrom(line, ItemEnd(line, i, pat[k]), pat, k + 1,
                   IF pat[k].cap
                   THEN Append(g, SubSeq(line, i, ItemEnd(line, i, pat[k]) - 1))
                   ELSE g)

\* the position after the item matched at position i, 0 if it does not match
ItemEnd(line, i, item) ==
    CASE item.kind = "lit" ->
            IF LitsAt(line, i, item.lits) = {} THEN 0
            ELSE FirstLitEnd(line, i, item.lits)
      [] item.kind = "opt" ->
            IF LitsAt(line, i, item.lits) = {} THEN i
            ELSE FirstLitEnd(line, i, item.lits)
      [] item.kind = "run" ->
            IF RunEnd(line, i, item.cls) - i >= item.min
            THEN RunEnd(line, i, item.cls) ELSE 0
      [] item.kind = "one" ->
            IF i <= Len(line) /\ InClass(line[i], item.cls) THEN i + 1 ELSE 0
      [] item.kind = "or" ->
            IF \E n \in 1..Len(item.pats) : MatchFrom(line, i, item.pats[n], 1, <<>>).ok
            THEN MatchFrom(line, i,
                     item.pats[Lowest({n \in 1..Len(item.pats) :
                                         MatchFrom(line, i, item.pats[n], 1, <<>>).ok})],
                     1, <<>>).end
            ELSE 0
      [] item.kind = "rest" -> Len(line) + 1
      [] item.kind = "bound" ->
            IF i = 1 \/ ~InClass(line[i - 1], Word) THEN i ELSE 0
      [] item.kind = "end" -> IF i = Len(line) + 1 THEN i ELSE 0

\* re.search(pat, line) for a pattern that starts with ^
Match(line, pat) == MatchFrom(line, 1, pat, 1, <<>>)

\* re.search(pat, line): the leftmost match
Search(line, pat) ==
    IF \E i \in 1..(Len(line) + 1) : MatchFrom(line, i, pat, 1, <<>>).ok
    THEN MatchFrom(line,
                   Lowest({i \in 1..(Len(line) + 1) : MatchFrom(line, i, pat, 1, <<>>).ok}),
                   pat, 1, <<>>)
    ELSE NoMatch

(***************************************************************************)
(* The patterns of the two parse methods.                                  *)
(***************************************************************************)
\* {10,} of separator_pattern
MinSeparatorLen == 10

\* ^[=_-]{10,}$
SeparatorPattern ==
    <<Run([neg |-> FALSE, of |-> {"=", "_", "-"}], MinSeparatorLen), End>>

\* one character of the class, repeated
IsSeparatorOneChar(line) ==
    \E c \in {"=", "_", "-"} :
        Match(line, <<Run([neg |-> FALSE, of |-> {c}], MinSeparatorLen), End>>).ok

IsSeparator(line) == Match(line, SeparatorPattern).ok

IsHeaderDF(line) == Search(line, <<OneOf(HeaderLiteralsDF)>>).ok

IsHeaderXY(line) == Search(line, <<OneOf(HeaderLiteralsXY)>>).ok

\* ^([^\s]+)\s+(<type>): simple_element_pattern, and element_pattern of
\* parse_xy_coordinates.  Groups: tag, type
SimpleElementPattern == <<Capture(NotSpace, 1), Run(Space, 1), OneOf(TypeLabels)>>

\* ^([^\s]+)\s+(<type>)\s*.*?<point count>\s*\((\d+)\)\s*(<inside>|<outside>)?
\* Groups: tag, type, point count, side
ElementPattern ==
    SimpleElementPattern \o
    <<Run(Space, 0), Skip, Lit(PointCountLabel), Run(Space, 0), Lit(<<"(">>),
      Capture(Digit, 1), Lit(<<")">>), Run(Space, 0), Optional(<<Inside, Outside>>)>>

\* S=\s*([\d.]+)\s+Min=\((\d+)\)\s*([-\d.]+)\s+Max=\((\d+)\)\s*([-\d.]+)\s+<form>=\s*([\d.]+)
StatsPattern ==
    <<Lit(<<"S", "=">>), Run(Space, 0), Capture(DotDigit, 1), Run(Space, 1),
      Lit(<<"M", "i", "n", "=", "(">>), Capture(Digit, 1), Lit(<<")">>), Run(Space, 0),
      Capture(NumChar, 1), Run(Space, 1),
      Lit(<<"M", "a", "x", "=", "(">>), Capture(Digit, 1), Lit(<<")">>), Run(Space, 0),
      Capture(NumChar, 1), Run(Space, 1),
      Lit(FormLabel), Run(Space, 0), Capture(DotDigit, 1)>>

\* ([XYZ]-<value>_[^\s]*|Y-<value>_[^\s]*|X-<value>_[^\s]*|\d+)
CoordNamePatterns ==
    LET Named(letters) ==
            <<One([neg |-> FALSE, of |-> letters]), Lit(<<"-", ValueSign, "_">>),
              Run(NotSpace, 0)>>
    IN  <<Named({"X", "Y", "Z"}), Named({"Y"}), Named({"X"}), <<Run(Digit, 1)>>>>

\* ^(<name>)\s+([XYZ]|D)\s+([-\d.]+)\s+([-\d.]+)\s+([-\d.]+)\s+([-\d.]+)\s+([-\d.]+)\s*(.*)?
NamedCoordPattern ==
    <<OrGroup(CoordNamePatterns), Run(Space, 1),
      OneGroup([neg |-> FALSE, of |-> {"X", "Y", "Z", "D"}]), Run(Space, 1),
      Capture(NumChar, 1), Run(Space, 1), Capture(NumChar, 1), Run(Space, 1),
      Capture(NumChar, 1), Run(Space, 1), Capture(NumChar, 1), Run(Space, 1),
      Capture(NumChar, 1), Run(Space, 0), Rest>>

\* \bX\s+([-\d.]+) and \bY\s+([-\d.]+)
AxisPattern(letter) == <<Bound, Lit(<<letter>>), Run(Space, 1), Capture(NumChar, 1)>>

\* ^<circle>\d+$ and ^<d>-\d+$
CirclePattern == <<Lit(CirclePrefix), Run(Digit, 1), End>>

DPattern == <<Lit(DPrefix), Run(Digit, 1), End>>

ElementMatch(line) == Match(line, ElementPattern)

SimpleElementMatch(line) == Match(line, SimpleElementPattern)

StatsMatch(line) == Search(line, StatsPattern)

NamedCoordMatch(line) == Match(line, NamedCoordPattern)

AxisMatch(line, letter) == Search(line, AxisPattern(letter))

IsCircleTag(tag) == Match(tag, CirclePattern).ok

IsDTag(tag) == Match(tag, DPattern).ok

(***************************************************************************)
(* Python values.  A dict is a function on its keys; None, the empty dict, *)
(* the empty string and a missing (NaN) cell are the empty sequence, and a *)
(* cell that can be missing holds <<v>> when it is present.                *)
(***************************************************************************)
None == <<>>

EmptyDict == <<>>

\* d.update(e)
Update(d, e) == e @@ d

NaN == <<>>

Num(v) == <<v>>

\* pd.notna
NotNa(c) == c # NaN

\* pd.DataFrame(): no columns, no rows
EmptyFrame == [columns |-> <<>>, rows |-> <<>>]

\* self.column_translation of __init__
ColumnTranslation ==
    [element_name           |-> "U+8981 U+7D20 U+540D",
     measurement_type       |-> "U+6E2C U+5B9A U+7A2E U+5225",
     coordinate_name        |-> "U+5EA7 U+6A19 U+540D",
     coordinate_type        |-> "U+5EA7 U+6A19 U+7A2E U+5225",
     measured_value         |-> "U+5B9F U+6E2C U+5024",
     expected_value         |-> "U+57FA U+6E96 U+5024",
     calculated_deviation   |-> "U+504F U+5DEE",
     upper_tolerance        |-> "U+4E0A U+8A31 U+5BB9 U+5DEE",
     lower_tolerance        |-> "U+4E0B U+8A31 U+5BB9 U+5DEE",
     within_tolerance       |-> "U+8A31 U+5BB9 U+7BC4 U+56F2 U+5185",
     status                 |-> "U+30B9 U+30C6 U+30FC U+30BF U+30B9",
     data_type              |-> "U+30C7 U+30FC U+30BF U+7A2E U+5225",
     has_colored_values     |-> "U+30AB U+30E9 U+30FC U+5024 U+6709 U+7121",
     point_count            |-> "U+70B9 U+6570",
     side                   |-> "U+5074 U+9762",
     std_dev                |-> "U+6A19 U+6E96 U+504F U+5DEE",
     min_value              |-> "U+6700 U+5C0F U+5024",
     max_value              |-> "U+6700 U+5927 U+5024",
     form_error             |-> "U+5F62 U+72B6 U+8AA4 U+5DEE",
     histogram              |-> "U+30D2 U+30B9 U+30C8 U+30B0 U+30E9 U+30E0",
     tolerance_range        |-> "U+8A31 U+5BB9 U+7BC4 U+56F2",
     tolerance_utilization  |-> "U+8A31 U+5BB9 U+5DEE U+4F7F U+7528 U+7387",
     value                  |-> "U+5024"]

JapaneseColumnOrder ==
    << "U+8981 U+7D20 U+540D",
       "U+6E2C U+5B9A U+7A2E U+5225",
       "U+5EA7 U+6A19 U+540D",
       "U+5EA7 U+6A19 U+7A2E U+5225",
       "U+5B9F U+6E2C U+5024",
       "U+57FA U+6E96 U+5024",
       "U+504F U+5DEE",
       "U+4E0A U+8A31 U+5BB9 U+5DEE",
       "U+4E0B U+8A31 U+5BB9 U+5DEE",
       "U+8A31 U+5BB9 U+7BC4 U+56F2",
       "U+8A31 U+5BB9 U+7BC4 U+56F2 U+5185",
       "U+8A31 U+5BB9 U+5DEE U+4F7F U+7528 U+7387",
       "U+30B9 U+30C6 U+30FC U+30BF U+30B9",
       "U+30C7 U+30FC U+30BF U+7A2E U+5225",
       "U+30AB U+30E9 U+30FC U+5024 U+6709 U+7121",
       "U+70B9 U+6570",
       "U+5074 U+9762",
       "U+6A19 U+6E96 U+504F U+5DEE",
       "U+6700 U+5C0F U+5024",
       "U+6700 U+5927 U+5024",
       "U+5F62 U+72B6 U+8AA4 U+5DEE",
       "U+30D2 U+30B9 U+30C8 U+30B0 U+30E9 U+30E0" >>

EnglishColumnOrder ==
    << "element_name",
       "measurement_type",
       "coordinate_name",
       "coordinate_type",
       "measured_value",
       "expected_value",
       "calculated_deviation",
       "upper_tolerance",
       "lower_tolerance",
       "tolerance_range",
       "within_tolerance",
       "tolerance_utilization",
       "status",
       "data_type",
       "has_colored_values",
       "point_count",
       "side",
       "std_dev",
       "min_value",
       "max_value",
       "form_error",
       "histogram" >>

(***************************************************************************)
(* parse_lines_to_dataframe, step 1: the datasets between separators.      *)
(***************************************************************************)
\* datasets and current_dataset before the loop
SplitStart == [datasets |-> <<>>, current_dataset |-> <<>>]

\* the body of "for line in lines"
SplitLine(st, raw) ==
    IF Strip(raw) = <<>> THEN st
    ELSE IF IsHeaderDF(Strip(raw)) THEN st
    ELSE IF IsSeparator(Strip(raw))
         THEN IF st.current_dataset # <<>>
              THEN [datasets |-> Append(st.datasets, st.current_dataset),
                    current_dataset |-> <<>>]
              ELSE st
    ELSE [st EXCEPT !.current_dataset = Append(@, Strip(raw))]

RECURSIVE SplitFrom(_, _, _)
\* the loop over lines from position i
SplitFrom(ls, i, st) ==
    IF i > Len(ls) THEN st ELSE SplitFrom(ls, i + 1, SplitLine(st, ls[i]))

\* the last dataset is forgotten
LastDatasetForgotten(st) == st.datasets

\* "Don't forget the last dataset"
LastDataset(st) ==
    IF st.current_dataset # <<>> THEN Append(st.datasets, st.current_dataset)
    ELSE st.datasets

SplitDatasets(ls) == LastDataset(SplitFrom(ls, 1, SplitStart))

(***************************************************************************)
(* parse_lines_to_dataframe, step 2: one line of a dataset.  The context   *)
(* holds the locals blue_tag, element_info, stats_info and                 *)
(* measurement_records, and raised, set when float() raises ValueError.    *)
(***************************************************************************)
\* "measurement_records = []" before the loop over the datasets
ExtractStart ==
    [blue_tag |-> None, element_info |-> EmptyDict, stats_info |-> EmptyDict,
     measurement_records |-> <<>>, raised |-> FALSE]

\* the context of the earlier dataset is kept
BlockStartKept(ctx) == ctx

\* the statistics of the earlier dataset are kept
BlockStartKeepsStats(ctx) ==
    [ctx EXCEPT !.blue_tag = None, !.element_info = EmptyDict]

\* the tag and the header values of the earlier dataset are kept
BlockStartKeepsTag(ctx) == [ctx EXCEPT !.stats_info = EmptyDict]

\* the locals at the top of the loop over one dataset
BlockStart(ctx) ==
    [ctx EXCEPT !.blue_tag = None, !.element_info = EmptyDict, !.stats_info = EmptyDict]

\* the context is set once in a dataset: a later header does not overwrite it
SetElementOnce(ctx, m) ==
    IF ctx.blue_tag # None THEN ctx
    ELSE [ctx EXCEPT !.blue_tag = m.g[1],
                     !.element_info =
                         [element_name |-> m.g[1], measurement_type |-> m.g[2],
                          point_count |-> IntOf(m.g[3]),
                          side |-> IF m.g[4] # <<>> THEN m.g[4] ELSE NotApplicable]]

\* the body of "if element_match:"
SetElement(ctx, m) ==
    [ctx EXCEPT !.blue_tag = m.g[1],
                !.element_info =
                    [element_name |-> m.g[1], measurement_type |-> m.g[2],
                     point_count |-> IntOf(m.g[3]),
                     side |-> IF m.g[4] # <<>> THEN m.g[4] ELSE NotApplicable]]

\* the body of "if simple_match:"
SetSimpleElement(ctx, m) ==
    [ctx EXCEPT !.blue_tag = m.g[1],
                !.element_info =
                    [element_name |-> m.g[1], measurement_type |-> m.g[2],
                     point_count |-> 0, side |-> NotApplicable]]

\* the body of "if stats_match:"
SetStats(ctx, m) ==
    IF FloatOk(m.g[1]) /\ FloatOk(m.g[3]) /\ FloatOk(m.g[5]) /\ FloatOk(m.g[6])
    THEN [ctx EXCEPT !.stats_info =
              [std_dev |-> FloatOf(m.g[1]), min_point |-> IntOf(m.g[2]),
               min_value |-> FloatOf(m.g[3]), max_point |-> IntOf(m.g[4]),
               max_value |-> FloatOf(m.g[5]), form_error |-> FloatOf(m.g[6])]]
    ELSE [ctx EXCEPT !.raised = TRUE]

\* the record is made without its deviation
AppendRecordNoDeviation(ctx, m) ==
    IF FloatOk(m.g[3]) /\ FloatOk(m.g[4]) /\ FloatOk(m.g[5]) /\ FloatOk(m.g[6]) /\ FloatOk(m.g[7])
    THEN [ctx EXCEPT !.measurement_records =
              Append(@, Update(Update(ctx.element_info, ctx.stats_info),
                  [coordinate_name |-> m.g[1], coordinate_type |-> m.g[2],
                   measured_value |-> FloatOf(m.g[3]), expected_value |-> FloatOf(m.g[4]),
                   upper_tolerance |-> FloatOf(m.g[5]), lower_tolerance |-> FloatOf(m.g[6]),
                   histogram |-> Strip(m.g[8]),
                   data_type |-> "named_coordinate_with_tolerance",
                   has_colored_values |-> TRUE]))]
    ELSE [ctx EXCEPT !.raised = TRUE]

\* the body of "if named_match:"
AppendRecord(ctx, m) ==
    IF FloatOk(m.g[3]) /\ FloatOk(m.g[4]) /\ FloatOk(m.g[5]) /\ FloatOk(m.g[6]) /\ FloatOk(m.g[7])
    THEN [ctx EXCEPT !.measurement_records =
              Append(@, Update(Update(ctx.element_info, ctx.stats_info),
                  [coordinate_name |-> m.g[1], coordinate_type |-> m.g[2],
                   measured_value |-> FloatOf(m.g[3]), expected_value |-> FloatOf(m.g[4]),
                   upper_tolerance |-> FloatOf(m.g[5]), lower_tolerance |-> FloatOf(m.g[6]),
                   calculated_deviation |-> FloatOf(m.g[7]), histogram |-> Strip(m.g[8]),
                   data_type |-> "named_coordinate_with_tolerance",
                   has_colored_values |-> TRUE]))]
    ELSE [ctx EXCEPT !.raised = TRUE]

\* the header without point count is taken at any line of a dataset that
\* has no tag yet
ExtractLineAnywhere(ctx, line, idx) ==
    LET em == ElementMatch(line)
        sm == SimpleElementMatch(line)
        st == StatsMatch(line)
        nm == NamedCoordMatch(line)
    IN  IF em.ok THEN SetElement(ctx, em)
        ELSE IF ctx.blue_tag = None /\ sm.ok THEN SetSimpleElement(ctx, sm)
        ELSE IF st.ok THEN SetStats(ctx, st)
        ELSE IF ctx.blue_tag # None /\ nm.ok THEN AppendRecord(ctx, nm)
        ELSE ctx

\* the body of "for line_idx, line in enumerate(dataset)"
ExtractLine(ctx, line, idx) ==
    LET em == ElementMatch(line)
        sm == SimpleElementMatch(line)
        st == StatsMatch(line)
        nm == NamedCoordMatch(line)
    IN  IF em.ok THEN SetElement(ctx, em)
        ELSE IF ctx.blue_tag = None /\ idx = 0 /\ sm.ok THEN SetSimpleElement(ctx, sm)
        ELSE IF st.ok THEN SetStats(ctx, st)
        ELSE IF ctx.blue_tag # None /\ nm.ok THEN AppendRecord(ctx, nm)
        ELSE ctx

(***************************************************************************)
(* parse_lines_to_dataframe, the derived fields and the returned columns.  *)
(***************************************************************************)
\* n / d rounded to the nearest integer, a tie to the even one (numpy's round)
RoundDiv(n, d) ==
    LET m == Abs(n)
        e == Abs(d)
        f == m \div e
        r == m % e
        a == IF 2 * r < e THEN f
             ELSE IF 2 * r > e THEN f + 1
             ELSE IF f % 2 = 0 THEN f ELSE f + 1
    IN  IF (n < 0) = (d < 0) THEN a ELSE -a

\* decimals of .round(2): tolerance_utilization is held in units of 10^-2
UtilDigits == 2

\* the upper bound is exclusive
WithinToleranceStrict(lower, deviation, upper) ==
    IF NotNa(lower) /\ NotNa(upper) /\ NotNa(deviation)
    THEN <<lower[1] <= deviation[1] /\ deviation[1] < upper[1]>>
    ELSE None

\* the lambda of df.apply: True, False or None
WithinTolerance(lower, deviation, upper) ==
    IF NotNa(lower) /\ NotNa(upper) /\ NotNa(deviation)
    THEN <<lower[1] <= deviation[1] /\ deviation[1] <= upper[1]>>
    ELSE None

\* .map({True: 'PASS', False: 'FAIL', None: 'N/A'})
StatusOf(within) ==
    IF within = None THEN "N/A" ELSE IF within[1] THEN "PASS" ELSE "FAIL"

\* df['upper_tolerance'] - df['lower_tolerance']
ToleranceRange(upper, lower) ==
    IF NotNa(upper) /\ NotNa(lower) THEN Num(upper[1] - lower[1]) ELSE NaN

\* the deviation is set against the whole range, not against half of it
ToleranceUtilizationOfRange(deviation, range) ==
    IF range = NaN \/ deviation = NaN THEN NaN
    ELSE IF range[1] # 0
         THEN Num(RoundDiv(Abs(deviation[1]) * 100 * Pow10(UtilDigits), range[1]))
         ELSE Num(0)

\* np.where(range != 0, (|deviation| / (range / 2) * 100).round(2), 0)
ToleranceUtilization(deviation, range) ==
    IF range = NaN \/ deviation = NaN THEN NaN
    ELSE IF range[1] # 0
         THEN Num(RoundDiv(Abs(deviation[1]) * 2 * 100 * Pow10(UtilDigits), range[1]))
         ELSE Num(0)

\* the columns a record can lack, or whose cells the code tests with pd.notna
NumericKeys ==
    {"measured_value", "expected_value", "upper_tolerance", "lower_tolerance",
     "calculated_deviation", "std_dev", "min_point", "min_value", "max_point",
     "max_value", "form_error"}

DerivedKeys == {"within_tolerance", "status", "tolerance_range", "tolerance_utilization"}

\* the cell of pd.DataFrame(measurement_records) for record r and column k
Cell(r, k) ==
    IF k \in NumericKeys
    THEN IF k \in DOMAIN r THEN Num(r[k]) ELSE NaN
    ELSE r[k]

\* one row of df after "Calculate additional fields"
DerivedRow(r, keys) ==
    LET within == WithinTolerance(Cell(r, "lower_tolerance"),
                      Cell(r, "calculated_deviation"), Cell(r, "upper_tolerance"))
        range  == ToleranceRange(Cell(r, "upper_tolerance"), Cell(r, "lower_tolerance"))
    IN  [k \in keys \cup DerivedKeys |->
            IF k = "within_tolerance" THEN within
            ELSE IF k = "status" THEN StatusOf(within)
            ELSE IF k = "tolerance_range" THEN range
            ELSE IF k = "tolerance_utilization"
                 THEN ToleranceUtilization(Cell(r, "calculated_deviation"), range)
            ELSE Cell(r, k)]

\* the translation lacks the name of the tolerance range
RenameWithoutRange(translation, k) ==
    IF k \in DOMAIN translation /\ k # "tolerance_range" THEN translation[k] ELSE k

\* df.rename(columns=self.column_translation) of one column name
Rename(translation, k) == IF k \in DOMAIN translation THEN translation[k] ELSE k

\* "if measurement_records: ... return df"
BuildDataFrame(records, japanese, translation) ==
    IF records = <<>> THEN EmptyFrame
    ELSE LET keys   == UNION {DOMAIN records[i] : i \in 1..Len(records)}
             all    == keys \cup DerivedKeys
             Label(k) == IF japanese THEN Rename(translation, k) ELSE k
             order  == IF japanese THEN JapaneseColumnOrder ELSE EnglishColumnOrder
             have   == {Label(k) : k \in all}
             InFrame(c) == c \in have
             cols   == SelectSeq(order, InFrame)
             KeyOf(c) == CHOOSE k \in all : Label(k) = c
         IN  [columns |-> cols,
              rows |-> [i \in 1..Len(records) |->
                          LET row == DerivedRow(records[i], keys)
                          IN  [c \in {cols[j] : j \in 1..Len(cols)} |-> row[KeyOf(c)]]]]

(***************************************************************************)
(* parse_xy_coordinates.  printed counts the lines written by print() when *)
(* verbose is set.                                                         *)
(***************************************************************************)
Printed(verbose, n) == IF verbose THEN n ELSE 0

\* str.strip() of every line (both parse methods strip before they look)
StripAll(ls) == [i \in 1..Len(ls) |-> Strip(ls[i])]

\* "Step 1: Clean the lines by removing headers"
CleanLines(ls) ==
    LET Keep(line) == line # <<>> /\ ~(IsHeaderXY(line) \/ IsSeparator(line))
    IN  SelectSeq(StripAll(ls), Keep)

\* the lines printed by step 1: one for every skipped header or separator
CleanPrinted(ls, verbose) ==
    Printed(verbose,
        Cardinality({i \in 1..Len(ls) :
            LET line == Strip(ls[i])
            IN  line # <<>> /\ (IsHeaderXY(line) \/ IsSeparator(line))}))

\* the locals before "Step 2: Process all clean lines sequentially"
ScanStart ==
    [current_element |-> None, looking_for_x |-> FALSE, looking_for_y |-> FALSE,
     current_x |-> None, xy_records |-> <<>>, raised |-> FALSE, printed |-> 0]

\* the filter without the anchor at the end of the tag
AcceptedPrefix(tag) ==
    \/ Match(tag, <<Lit(CirclePrefix), Run(Digit, 1)>>).ok
    \/ Match(tag, <<Lit(DPrefix), Run(Digit, 1)>>).ok

\* the acceptance filter: circle_pattern or d_pattern
Accepted(tag) == IsCircleTag(tag) \/ IsDTag(tag)

\* the X of the abandoned element is kept for the new one
ScanElementKeepsX(st, m, verbose) ==
    IF Accepted(m.g[1])
    THEN [st EXCEPT !.current_element = m.g[1],
                    !.looking_for_x = st.current_x = None,
                    !.looking_for_y = st.current_x # None,
                    !.printed = @ + Printed(verbose, 2)]
    ELSE [st EXCEPT !.printed = @ + Printed(verbose, 2)]

\* the body of "if element_match:"
ScanElement(st, m, verbose) ==
    IF Accepted(m.g[1])
    THEN [st EXCEPT !.current_element = m.g[1],
                    !.looking_for_x = TRUE,
                    !.looking_for_y = FALSE,
                    !.current_x = None,
                    !.printed = @ + Printed(verbose,
                        IF st.current_element # None /\ st.current_x # None
                           /\ st.looking_for_y THEN 3 ELSE 2)]
    ELSE [st EXCEPT !.printed = @ + Printed(verbose, 2)]

\* the scan goes on looking for an X after it has taken one
ScanXStillLooking(st, m, verbose) ==
    IF FloatOk(m.g[1])
    THEN [st EXCEPT !.current_x = <<Abs(FloatOf(m.g[1]))>>,
                    !.looking_for_y = TRUE,
                    !.printed = @ + Printed(verbose, 1)]
    ELSE [st EXCEPT !.raised = TRUE]

\* the body of "if x_match:"
ScanX(st, m, verbose) ==
    IF FloatOk(m.g[1])
    THEN [st EXCEPT !.current_x = <<Abs(FloatOf(m.g[1]))>>,
                    !.looking_for_x = FALSE,
                    !.looking_for_y = TRUE,
                    !.printed = @ + Printed(verbose, 1)]
    ELSE [st EXCEPT !.raised = TRUE]

\* the record is kept only when verbose is set
ScanYVerbose(st, m, verbose) ==
    IF FloatOk(m.g[1])
    THEN [st EXCEPT !.xy_records =
                        IF verbose
                        THEN Append(@, [element_name |-> st.current_element,
                                        x_coordinate |-> st.current_x[1],
                                        y_coordinate |-> Abs(FloatOf(m.g[1]))])
                        ELSE @,
                    !.current_element = None,
                    !.looking_for_x = FALSE,
                    !.looking_for_y = FALSE,
                    !.current_x = None,
                    !.printed = @ + Printed(verbose, 1)]
    ELSE [st EXCEPT !.raised = TRUE]

\* the body of "if y_match:"
ScanY(st, m, verbose) ==
    IF FloatOk(m.g[1])
    THEN [st EXCEPT !.xy_records =
                        Append(@, [element_name |-> st.current_element,
                                   x_coordinate |-> st.current_x[1],
                                   y_coordinate |-> Abs(FloatOf(m.g[1]))]),
                    !.current_element = None,
                    !.looking_for_x = FALSE,
                    !.looking_for_y = FALSE,
                    !.current_x = None,
                    !.printed = @ + Printed(verbose, 1)]
    ELSE [st EXCEPT !.raised = TRUE]

\* the header of a rejected tag is looked at for X and Y like any other line
ScanLineExaminesRejected(st, line, verbose) ==
    LET em == SimpleElementMatch(line)
        xm == AxisMatch(line, "X")
        ym == AxisMatch(line, "Y")
    IN  IF em.ok /\ Accepted(em.g[1]) THEN ScanElement(st, em, verbose)
        ELSE IF st.current_element # None /\ st.looking_for_x /\ xm.ok
             THEN ScanX(st, xm, verbose)
        ELSE IF st.current_element # None /\ st.current_x # None
                /\ st.looking_for_y /\ ym.ok
             THEN ScanY(st, ym, verbose)
        ELSE st

\* the body of "for line_idx, line in enumerate(clean_lines)"
ScanLine(st, line, verbose) ==
    LET em == SimpleElementMatch(line)
        xm == AxisMatch(line, "X")
        ym == AxisMatch(line, "Y")
    IN  IF em.ok THEN ScanElement(st, em, verbose)
        ELSE IF st.current_element # None /\ st.looking_for_x /\ xm.ok
             THEN ScanX(st, xm, verbose)
        ELSE IF st.current_element # None /\ st.current_x # None
                /\ st.looking_for_y /\ ym.ok
             THEN ScanY(st, ym, verbose)
        ELSE st

\* re.search(r'<prefix>(\d+)', element_name) of extract_number
NumberPattern(prefix) == <<Lit(prefix), Capture(Digit, 1)>>

\* int(match.group(1)) if match else 0
NumberAfter(name, prefix) ==
    IF Search(name, NumberPattern(prefix)).ok
    THEN IntOf(Search(name, NumberPattern(prefix)).g[1])
    ELSE 0

\* the first digit of the number after the prefix, 0 without one
FirstDigitAfter(name, prefix) ==
    IF Search(name, NumberPattern(prefix)).ok
    THEN DigitValue(Search(name, NumberPattern(prefix)).g[1][1])
    ELSE 0

\* the number is read from its first digit alone
ExtractNumberOneDigit(name) ==
    IF Contains(name, CirclePrefix) THEN FirstDigitAfter(name, CirclePrefix)
    ELSE IF Contains(name, DPrefix) THEN FirstDigitAfter(name, DPrefix)
    ELSE 0

\* extract_number: the integer after the family prefix, 0 without one
ExtractNumber(name) ==
    IF Contains(name, CirclePrefix) THEN NumberAfter(name, CirclePrefix)
    ELSE IF Contains(name, DPrefix) THEN NumberAfter(name, DPrefix)
    ELSE 0

RECURSIVE SortedByNumber(_)
\* sorted(records, key=extract_number): stable, ascending
SortedByNumber(rs) ==
    IF rs = <<>> THEN <<>>
    ELSE LET init == SortedByNumber(SubSeq(rs, 1, Len(rs) - 1))
             r    == rs[Len(rs)]
             keep == {i \in 1..Len(init) :
                        ExtractNumber(init[i].element_name) <= ExtractNumber(r.element_name)}
             n    == Cardinality(keep)
         IN  SubSeq(init, 1, n) \o <<r>> \o SubSeq(init, n + 1, Len(init))

\* "if xy_records: ... return df"
BuildXYFrame(records, japanese, translation) ==
    IF records = <<>> THEN EmptyFrame
    ELSE LET InCircle(r) == Contains(r.element_name, CirclePrefix)
             InD(r)      == Contains(r.element_name, DPrefix)
             sorted == SortedByNumber(SelectSeq(records, InCircle))
                       \o SortedByNumber(SelectSeq(records, InD))
             Label(k) == IF japanese THEN Rename(translation, k) ELSE k
             Row(r, axis) ==
                 (Label("element_name") :> r.element_name)
                 @@ (Label("coordinate_type") :> axis)
                 @@ (Label("value") :> IF axis = "X" THEN r.x_coordinate ELSE r.y_coordinate)
         IN  [columns |-> <<Label("element_name"), Label("coordinate_type"), Label("value")>>,
              rows |-> [i \in 1..(2 * Len(sorted)) |->
                          Row(sorted[(i + 1) \div 2], IF i % 2 = 1 THEN "X" ELSE "Y")]]

(***************************************************************************)
(* create_summary_by_element.  A summary frame holds one row per group,    *)
(* indexed by the group's element name: the order of the rows and the two  *)
(* standard-deviation columns are not represented.                         *)
(***************************************************************************)
\* decimals of .round(4) and of the pass rate's .round(1)
SummaryDigits == 4

RateDigits == 1

RECURSIVE SumOver(_, _)
\* the sum of f over a finite set of row numbers
SumOver(f, S) ==
    IF S = {} THEN 0
    ELSE LET x == CHOOSE y \in S : TRUE IN f[x] + SumOver(f, S \ {x})

\* '<japanese name>' if it is a column of df, else the internal name
ColumnOf(df, translation, k) ==
    IF \E j \in 1..Len(df.columns) : df.columns[j] = translation[k]
    THEN translation[k] ELSE k

\* the pass rate rounded to a whole number
PassRateWhole(pass_count, coordinate_count) ==
    IF coordinate_count = 0 THEN NaN
    ELSE Num(RoundDiv(pass_count * 100, coordinate_count) * Pow10(RateDigits))

\* the ratio taken the other way round
PassRateInverted(pass_count, coordinate_count) ==
    IF pass_count = 0 THEN NaN
    ELSE Num(RoundDiv(coordinate_count * 100 * Pow10(RateDigits), pass_count))

\* (summary['pass_count'] / summary['coordinate_count'] * 100).round(1)
PassRate(pass_count, coordinate_count) ==
    IF coordinate_count = 0 THEN NaN
    ELSE Num(RoundDiv(pass_count * 100 * Pow10(RateDigits), coordinate_count))

CreateSummaryByElement(df, translation) ==
    IF Len(df.rows) = 0 THEN EmptyFrame
    ELSE
    LET Col(k)  == ColumnOf(df, translation, k)
        idx     == 1..Len(df.rows)
        names   == {df.rows[i][Col("element_name")] : i \in idx}
        Group(n) == {i \in idx : df.rows[i][Col("element_name")] = n}
        First(n) == CHOOSE i \in Group(n) : \A j \in Group(n) : i <= j
        Present(n, k) == {i \in Group(n) : NotNa(df.rows[i][Col(k)])}
        Values(k) == [i \in idx |-> IF NotNa(df.rows[i][Col(k)])
                                    THEN df.rows[i][Col(k)][1] ELSE 0]
        Mean(n, k, digits) ==
            IF Present(n, k) = {} THEN NaN
            ELSE Num(RoundDiv(SumOver(Values(k), Present(n, k))
                                  * Pow10(SummaryDigits - digits),
                              Cardinality(Present(n, k))))
        Least(n, k) ==
            IF Present(n, k) = {} THEN NaN
            ELSE Num(CHOOSE v \in {Values(k)[i] : i \in Present(n, k)} :
                         \A i \in Present(n, k) : v <= Values(k)[i])
        Most(n, k) ==
            IF Present(n, k) = {} THEN NaN
            ELSE Num(CHOOSE v \in {Values(k)[i] : i \in Present(n, k)} :
                         \A i \in Present(n, k) : v >= Values(k)[i])
        Count(n) == Cardinality(Present(n, "measured_value"))
        Passes(n) ==
            Cardinality({i \in Group(n) : df.rows[i][Col("within_tolerance")] = <<TRUE>>})
    IN  [columns |->
            <<Col("element_name"), Col("measurement_type") \o "_first",
              Col("point_count") \o "_first", Col("side") \o "_first",
              "coordinate_count", "avg_measured_value", "avg_deviation",
              "min_deviation", "max_deviation", "pass_count", "avg_tolerance_util",
              "pass_rate">>,
         rows |->
            [n \in names |->
                [measurement_type   |-> df.rows[First(n)][Col("measurement_type")],
                 point_count        |-> df.rows[First(n)][Col("point_count")],
                 side               |-> df.rows[First(n)][Col("side")],
                 coordinate_count   |-> Count(n),
                 avg_measured_value |-> Mean(n, "measured_value", Scale),
                 avg_deviation      |-> Mean(n, "calculated_deviation", Scale),
                 min_deviation      |-> Least(n, "calculated_deviation"),
                 max_deviation      |-> Most(n, "calculated_deviation"),
                 pass_count         |-> Passes(n),
                 avg_tolerance_util |-> Mean(n, "tolerance_utilization", UtilDigits),
                 pass_rate          |-> PassRate(Passes(n), Count(n))]]]

(***************************************************************************)
(* What a call hands back: the frame (for process_cmm_data, the frame and  *)
(* the summary), or the exception it raised.                               *)
(***************************************************************************)
NoReturn == [op |-> "", raised |-> FALSE, df |-> EmptyFrame, summary |-> EmptyFrame]

Returned(o, df, summary) == [op |-> o, raised |-> FALSE, df |-> df, summary |-> summary]

Raised(o) == [op |-> o, raised |-> TRUE, df |-> EmptyFrame, summary |-> EmptyFrame]

(***************************************************************************)
(* The state: a CMMParser instance (version, column_translation), the call *)
(* in progress (pc, op, its arguments and its locals), the lines it has    *)
(* printed, and what the last call returned.  saved keeps one earlier call *)
(* with its result.                                                        *)
(***************************************************************************)
VARIABLES version, column_translation,
          pc, op, lines, use_japanese_columns, verbose,
          datasets, dataset_idx, line_idx,
          blue_tag, element_info, stats_info, measurement_records,
          clean_lines, current_element, looking_for_x, looking_for_y, current_x,
          xy_records, stdout, ret, saved

instance == <<version, column_translation>>

args == <<op, lines, use_japanese_columns, verbose>>

dflocals == <<datasets, dataset_idx, line_idx, blue_tag, element_info, stats_info,
              measurement_records>>

xylocals == <<clean_lines, current_element, looking_for_x, looking_for_y, current_x,
              xy_records>>

vars == <<instance, pc, args, dflocals, xylocals, stdout, ret, saved>>

NoCall == [op |-> "", lines |-> <<>>, japanese |-> FALSE, verbose |-> FALSE,
           ret |-> NoReturn, later |-> 0]

\* one more call made since the caller kept a call
Later(s) == IF s = NoCall THEN s ELSE [s EXCEPT !.later = @ + 1]

\* CMMParser(): __init__, and no call made yet
Init ==
    /\ version = "1.2.0"
    /\ column_translation = ColumnTranslation
    /\ pc = "idle"
    /\ op = ""
    /\ lines = <<>>
    /\ use_japanese_columns = FALSE
    /\ verbose = FALSE
    /\ datasets = <<>>
    /\ dataset_idx = 0
    /\ line_idx = 0
    /\ blue_tag = None
    /\ element_info = EmptyDict
    /\ stats_info = EmptyDict
    /\ measurement_records = <<>>
    /\ clean_lines = <<>>
    /\ current_element = None
    /\ looking_for_x = FALSE
    /\ looking_for_y = FALSE
    /\ current_x = None
    /\ xy_records = <<>>
    /\ stdout = 0
    /\ ret = NoReturn
    /\ saved = NoCall

\* the locals of the loop over a dataset, as ExtractLine takes them
Context ==
    [blue_tag |-> blue_tag, element_info |-> element_info, stats_info |-> stats_info,
     measurement_records |-> measurement_records, raised |-> FALSE]

\* the records of the earlier call are kept
NewRecordsKept(old) == old

\* "measurement_records = []" at the start of step 2
NewRecords(old) == <<>>

\* the translation table a call uses: the instance's, or, for the module
\* function process_cmm_data, that of the parser it constructs
TranslationOf(o) == IF o = "process_cmm_data" THEN ColumnTranslation ELSE column_translation

\* parse_lines_to_dataframe(ls, japanese, vb) is called (o names the entry
\* point: the method, or process_cmm_data which calls it): step 1 runs, the
\* loop of step 2 is about to start
CallParse(o, ls, japanese, vb) ==
    /\ pc = "idle"
    /\ pc' = "extract"
    /\ op' = o
    /\ lines' = ls
    /\ use_japanese_columns' = japanese
    /\ verbose' = vb
    /\ datasets' = SplitDatasets(ls)
    /\ dataset_idx' = 0
    /\ line_idx' = 0
    /\ blue_tag' = None
    /\ element_info' = EmptyDict
    /\ stats_info' = EmptyDict
    /\ measurement_records' = NewRecords(measurement_records)
    /\ stdout' = Printed(vb, 3)
    /\ ret' = NoReturn
    /\ saved' = Later(saved)
    /\ UNCHANGED <<instance, xylocals>>

\* the locals after the body of the loop has run on the current line ("if
\* not dataset: continue" for an empty dataset)
Stepped ==
    IF datasets[dataset_idx + 1] = <<>> THEN Context
    ELSE ExtractLine(Context, datasets[dataset_idx + 1][line_idx + 1], line_idx)

\* the current line is the last of its dataset
LastLine == line_idx + 1 >= Len(datasets[dataset_idx + 1])

\* one iteration of the loop over the lines of the current dataset; after
\* the last line of a dataset the locals are those of the next dataset's start
ExtractStep ==
    /\ pc = "extract"
    /\ dataset_idx < Len(datasets)
    /\ ~Stepped.raised
    /\ dataset_idx' = IF LastLine THEN dataset_idx + 1 ELSE dataset_idx
    /\ line_idx' = IF LastLine THEN 0 ELSE line_idx + 1
    /\ LET next == IF LastLine THEN BlockStart(Stepped) ELSE Stepped
       IN  /\ blue_tag' = next.blue_tag
           /\ element_info' = next.element_info
           /\ stats_info' = next.stats_info
           /\ measurement_records' = next.measurement_records
    /\ UNCHANGED <<instance, pc, args, datasets, xylocals, stdout, ret, saved>>

\* float() raises ValueError in the loop: the call ends with the exception
ExtractRaise ==
    /\ pc = "extract"
    /\ dataset_idx < Len(datasets)
    /\ Stepped.raised
    /\ pc' = "idle"
    /\ ret' = Raised(op)
    /\ UNCHANGED <<instance, args, dflocals, xylocals, stdout, saved>>

\* the loop is over: the derived fields, the columns, and the return (for
\* process_cmm_data, with the summary of a non-empty frame)
ReturnFrame ==
    /\ pc = "extract"
    /\ dataset_idx >= Len(datasets)
    /\ LET df == BuildDataFrame(measurement_records, use_japanese_columns,
                                TranslationOf(op))
           empty == Len(df.rows) = 0
       IN  /\ ret' = IF op = "process_cmm_data" /\ ~empty
                     THEN Returned(op, df, CreateSummaryByElement(df, TranslationOf(op)))
                     ELSE Returned(op, df, EmptyFrame)
           /\ stdout' = stdout + Printed(verbose, 3 + 1)
                        + IF op = "process_cmm_data"
                          THEN Printed(verbose, IF empty THEN 1 ELSE 4) ELSE 0
    /\ pc' = "idle"
    /\ UNCHANGED <<instance, args, dflocals, xylocals, saved>>

\* the locals of the loop over clean_lines, as ScanLine takes them
ScanState ==
    [current_element |-> current_element, looking_for_x |-> looking_for_x,
     looking_for_y |-> looking_for_y, current_x |-> current_x,
     xy_records |-> xy_records, raised |-> FALSE, printed |-> 0]

\* parse_xy_coordinates(ls, japanese, vb) is called: step 1 runs, the loop
\* of step 2 is about to start
CallParseXY(ls, japanese, vb) ==
    /\ pc = "idle"
    /\ pc' = "scan"
    /\ op' = "parse_xy_coordinates"
    /\ lines' = ls
    /\ use_japanese_columns' = japanese
    /\ verbose' = vb
    /\ clean_lines' = CleanLines(ls)
    /\ line_idx' = 0
    /\ current_element' = ScanStart.current_element
    /\ looking_for_x' = ScanStart.looking_for_x
    /\ looking_for_y' = ScanStart.looking_for_y
    /\ current_x' = ScanStart.current_x
    /\ xy_records' = ScanStart.xy_records
    /\ stdout' = Printed(vb, 2) + CleanPrinted(ls, vb) + Printed(vb, 1)
    /\ ret' = NoReturn
    /\ saved' = Later(saved)
    /\ UNCHANGED <<instance, datasets, dataset_idx, blue_tag, element_info, stats_info,
                   measurement_records>>

\* one iteration of the loop over clean_lines
ScanStep ==
    /\ pc = "scan"
    /\ line_idx < Len(clean_lines)
    /\ LET new == ScanLine(ScanState, clean_lines[line_idx + 1], verbose)
       IN  /\ ~new.raised
           /\ current_element' = new.current_element
           /\ looking_for_x' = new.looking_for_x
           /\ looking_for_y' = new.looking_for_y
           /\ current_x' = new.current_x
           /\ xy_records' = new.xy_records
           /\ stdout' = stdout + new.printed
    /\ line_idx' = line_idx + 1
    /\ UNCHANGED <<instance, pc, args, clean_lines, datasets, dataset_idx, blue_tag,
                   element_info, stats_info, measurement_records, ret, saved>>

\* float() raises ValueError in the loop: the call ends with the exception
ScanRaise ==
    /\ pc = "scan"
    /\ line_idx < Len(clean_lines)
    /\ ScanLine(ScanState, clean_lines[line_idx + 1], verbose).raised
    /\ pc' = "idle"
    /\ ret' = Raised(op)
    /\ UNCHANGED <<instance, args, dflocals, xylocals, stdout, saved>>

\* the loop is over: the two families sorted and reshaped, and the return
ReturnXY ==
    /\ pc = "scan"
    /\ line_idx >= Len(clean_lines)
    /\ ret' = Returned(op, BuildXYFrame(xy_records, use_japanese_columns,
                                        column_translation), EmptyFrame)
    /\ stdout' = stdout + Printed(verbose, 3)
                 + Printed(verbose, IF xy_records # <<>> THEN 3 + 4 ELSE 1)
    /\ pc' = "idle"
    /\ UNCHANGED <<instance, args, dflocals, xylocals, saved>>

\* create_summary_by_element(df) is called on the frame that
\* parse_lines_to_dataframe has just returned
Summarise ==
    /\ pc = "idle"
    /\ ret.op = "parse_lines_to_dataframe"
    /\ ~ret.raised
    /\ ret' = Returned("create_summary_by_element", ret.df,
                       CreateSummaryByElement(ret.df, column_translation))
    /\ UNCHANGED <<instance, pc, args, dflocals, xylocals, stdout, saved>>

\* the caller keeps the call that has just returned, to compare a later call
\* with it
Remember ==
    /\ pc = "idle"
    /\ ret.op # ""
    /\ saved = NoCall
    /\ saved' = [op |-> op, lines |-> lines, japanese |-> use_japanese_columns,
                 verbose |-> verbose, ret |-> ret, later |-> 0]
    /\ UNCHANGED <<instance, pc, args, dflocals, xylocals, stdout, ret>>

(***************************************************************************)
(* The texts the calls are given: sequences of at most MaxLines lines over *)
(* a small set of lines, or of at most MaxGroups fragments of a few lines. *)
(***************************************************************************)
MaxLines == 3

MaxGroups == 2

\* the calls made after the one the caller keeps
MaxLater == 2

SeqsUpTo(V, n) == UNION {[1..k -> V] : k \in 0..n}

RECURSIVE Join(_)
\* the words, one blank between two
Join(ws) ==
    IF Len(ws) = 1 THEN ws[1]
    ELSE Join(SubSeq(ws, 1, Len(ws) - 1)) \o <<SP>> \o ws[Len(ws)]

RECURSIVE Flatten(_)
\* the lines of the fragments, in order
Flatten(gs) == IF gs = <<>> THEN <<>> ELSE Head(gs) \o Flatten(Tail(gs))

PointType == TypeLabels[6]

DistanceType == TypeLabels[7]

PointCount(ds) == PointCountLabel \o <<"(">> \o ds \o <<")">>

TagCircle1 == CirclePrefix \o <<"1">>

TagCircle2 == CirclePrefix \o <<"2">>

TagCircle02 == CirclePrefix \o <<"0", "2">>

TagCircle10 == CirclePrefix \o <<"1", "0">>

TagCircle12A == CirclePrefix \o <<"1", "2", "A">>

TagD1 == DPrefix \o <<"1">>

TagD3 == DPrefix \o <<"3">>

TagT2 == <<"T", "2">>

\* "<circle>1 <point> <count>(4) <inside>" and "T2 <2D distance> <count>(12)"
HeaderA == Join(<<TagCircle1, PointType, PointCount(<<"4">>), Inside>>)

HeaderB == Join(<<TagT2, DistanceType, PointCount(<<"1", "2">>)>>)

\* "<d>-3 <point>": a header without point count
HeaderSimple == Join(<<TagD3, PointType>>)

HeaderOf(tag) == Join(<<tag, PointType>>)

\* "1 X 1.000 1.000 0.020 -0.020 0.020": the deviation on the upper bound
CoordPass ==
    Join(<<<<"1">>, <<"X">>, <<"1", ".", "0", "0", "0">>, <<"1", ".", "0", "0", "0">>,
           <<"0", ".", "0", "2", "0">>, <<"-", "0", ".", "0", "2", "0">>,
           <<"0", ".", "0", "2", "0">>>>)

\* "Y-<value>_2 Y 2 2 0.02 -0.02 0.021 **": the deviation above the upper bound
CoordFail ==
    Join(<<<<"Y", "-", ValueSign, "_", "2">>, <<"Y">>, <<"2">>, <<"2">>,
           <<"0", ".", "0", "2">>, <<"-", "0", ".", "0", "2">>,
           <<"0", ".", "0", "2", "1">>, <<"*", "*">>>>)

\* "1 X 1.2.3 1 1 -1 0": a coordinate line, and an X line, with a malformed number
CoordBad ==
    Join(<<<<"1">>, <<"X">>, <<"1", ".", "2", ".", "3">>, <<"1">>, <<"1">>,
           <<"-", "1">>, <<"0">>>>)

\* "2 Y - 1 1 -1 0": a coordinate line, and a Y line, with a malformed number
YBad == Join(<<<<"2">>, <<"Y">>, <<"-">>, <<"1">>, <<"1">>, <<"-", "1">>, <<"0">>>>)

\* "S= . Min=(1) 0 Max=(2) 1 <form>= 1": a statistics line with a malformed number
StatsBad ==
    Join(<<<<"S", "=">>, <<".">>, <<"M", "i", "n", "=", "(", "1", ")">>, <<"0">>,
           <<"M", "a", "x", "=", "(", "2", ")">>, <<"1">>, FormLabel, <<"1">>>>)

\* "S= 0.001 Min=(1) -0.01 Max=(2) 0.01 <form>= 0.002"
StatsA ==
    Join(<<<<"S", "=">>, <<"0", ".", "0", "0", "1">>,
           <<"M", "i", "n", "=", "(", "1", ")">>, <<"-", "0", ".", "0", "1">>,
           <<"M", "a", "x", "=", "(", "2", ")">>, <<"0", ".", "0", "1">>,
           FormLabel, <<"0", ".", "0", "0", "2">>>>)

\* "S= 0.5 Min=(3) -1 Max=(4) 2 <form>= 0.25"
StatsB ==
    Join(<<<<"S", "=">>, <<"0", ".", "5">>,
           <<"M", "i", "n", "=", "(", "3", ")">>, <<"-", "1">>,
           <<"M", "a", "x", "=", "(", "4", ")">>, <<"2">>,
           FormLabel, <<"0", ".", "2", "5">>>>)

SeparatorLine == [i \in 1..MinSeparatorLen |-> "="]

\* "=-_=-_=-_=-": a separator of mixed characters
MixedSeparator == [i \in 1..(MinSeparatorLen + 1) |-> <<"=", "-", "_">>[((i - 1) % 3) + 1]]

\* a rule one character too short to be a separator
ShortRule == [i \in 1..(MinSeparatorLen - 1) |-> "="]

\* "CALYPSO x": page-header noise
NoiseLine == HeaderLiteralsDF[2] \o <<SP, "x">>

Foo == <<"f", "o", "o">>

\* " bar ": a line to trim
Bar == <<SP, "b", "a", "r", SP>>

Blank == <<SP, SP>>

\* "X 1.5", "X -3" and "Y -2"
XLine == <<"X", SP, "1", ".", "5">>

XLineNeg == <<"X", SP, "-", "3">>

YLine == <<"Y", SP, "-", "2">>

\* "<circle>12A <point> X 7 Y 8": the header of a tag the filter rejects,
\* with an X value and a Y value on the line
RejectedWithXY ==
    Join(<<TagCircle12A, PointType, <<"X">>, <<"7">>, <<"Y">>, <<"8">>>>)

\* header, X line and Y line of one element
Complete(tag, x) == <<HeaderOf(tag), x, YLine>>

LinesDF == {HeaderA, HeaderB, HeaderSimple, CoordPass, CoordFail, SeparatorLine}

LinesSeg == {Foo, Bar, Blank, NoiseLine, SeparatorLine, MixedSeparator, ShortRule}

LinesErr == {HeaderA, CoordPass, CoordBad, YBad, StatsBad}

LinesBoth == {HeaderA, CoordPass, CoordFail}

FragmentsXY ==
    {<<HeaderOf(TagCircle2)>>, <<HeaderOf(TagCircle2), XLine>>,
     <<HeaderOf(TagCircle12A), XLine>>, <<YLine>>, <<XLineNeg, YLine>>,
     <<RejectedWithXY>>,
     Complete(TagCircle2, XLine), Complete(TagCircle2, XLineNeg),
     Complete(TagCircle02, XLine), Complete(TagCircle10, XLine), Complete(TagD1, XLine)}

TextsAgain == {<<HeaderA, CoordPass, CoordFail>>, <<HeaderA, CoordFail>>}

LinesLabels == {HeaderA, HeaderSimple, StatsA, CoordPass, CoordFail}

LinesEmpty == {Blank, NoiseLine, SeparatorLine, HeaderA, CoordPass, StatsBad, CoordBad}

\* "<circle>1 <2D distance> <count>(7)": the tag of HeaderA under another
\* type, count and side
HeaderA2 == Join(<<TagCircle1, DistanceType, PointCount(<<"7">>)>>)

FragmentsSummary ==
    {<<HeaderA, CoordPass, CoordPass>>, <<CoordPass, CoordFail>>, <<HeaderA, CoordFail>>,
     <<HeaderA2, CoordFail>>, <<HeaderB, CoordPass>>, <<SeparatorLine, HeaderB, CoordFail>>}

FragmentsBlocks ==
    {<<HeaderA, StatsA, CoordPass>>, <<StatsB, CoordFail>>, <<CoordPass>>,
     <<SeparatorLine, CoordFail>>, <<SeparatorLine, HeaderA, CoordFail>>,
     <<HeaderSimple, CoordPass>>, <<SeparatorLine>>}

\* an accepted tag alone and with its X line, a rejected tag with the X line
\* and Y line of its own feature, and X and Y lines under no header
FragmentsFeature ==
    {<<HeaderOf(TagCircle2)>>, <<HeaderOf(TagCircle2), XLine>>,
     Complete(TagCircle12A, XLineNeg), <<XLineNeg, YLine>>, <<YLine>>,
     Complete(TagD1, XLine)}

\* the tolerances and deviations of the coordinate lines: "0.02", "-0.02",
\* "0.01", "0", "0.064", "-0.001" and "0.015"
Tokens ==
    {<<"0", ".", "0", "2">>, <<"-", "0", ".", "0", "2">>, <<"0", ".", "0", "1">>,
     <<"0">>, <<"0", ".", "0", "6", "4">>, <<"-", "0", ".", "0", "0", "1">>,
     <<"0", ".", "0", "1", "5">>}

\* "1 X 1 1 <upper> <lower> <deviation>"
CoordOf(upper, lower, deviation) ==
    Join(<<<<"1">>, <<"X">>, <<"1">>, <<"1">>, upper, lower, deviation>>)

(***************************************************************************)
(* The specifications: one call on a fresh parser (the two parse methods   *)
(* on their texts, with and without malformed numbers, with and without    *)
(* verbose), and several calls on one parser.                              *)
(***************************************************************************)
\* no call has been made on the instance yet
Fresh == ret.op = ""

\* parse_lines_to_dataframe on a text of measurement lines
CallDF ==
    /\ Fresh
    /\ \E ls \in SeqsUpTo(LinesDF, MaxLines), japanese \in BOOLEAN :
           CallParse("parse_lines_to_dataframe", ls, japanese, FALSE)

NextDF == CallDF \/ ExtractStep \/ ReturnFrame

SpecDF == Init /\ [][NextDF]_vars

\* parse_lines_to_dataframe on a text of content lines, noise and separators
CallSeg ==
    /\ Fresh
    /\ \E ls \in SeqsUpTo(LinesSeg, MaxLines) :
           CallParse("parse_lines_to_dataframe", ls, TRUE, FALSE)

NextSeg == CallSeg \/ ExtractStep \/ ReturnFrame

SpecSeg == Init /\ [][NextSeg]_vars

\* parse_xy_coordinates on a text of headers, X lines and Y lines
CallXY ==
    /\ Fresh
    /\ \E gs \in SeqsUpTo(FragmentsXY, MaxGroups), japanese \in BOOLEAN :
           CallParseXY(Flatten(gs), japanese, FALSE)

NextXY == CallXY \/ ScanStep \/ ReturnXY

SpecXY == Init /\ [][NextXY]_vars

\* either parse method on a text with malformed numbers
CallErr ==
    /\ Fresh
    /\ \E ls \in SeqsUpTo(LinesErr, MaxLines) :
           \/ CallParse("parse_lines_to_dataframe", ls, TRUE, FALSE)
           \/ CallParseXY(ls, TRUE, FALSE)

NextErr ==
    CallErr \/ ExtractStep \/ ExtractRaise \/ ReturnFrame
        \/ ScanStep \/ ScanRaise \/ ReturnXY

SpecErr == Init /\ [][NextErr]_vars

\* the call the caller has kept, made again with the other value of verbose
CallOpposite ==
    /\ saved # NoCall
    /\ saved.later = 0
    /\ \/ /\ saved.op = "parse_xy_coordinates"
          /\ CallParseXY(saved.lines, saved.japanese, ~saved.verbose)
       \/ /\ saved.op # "parse_xy_coordinates"
          /\ CallParse(saved.op, saved.lines, saved.japanese, ~saved.verbose)

\* the two parse methods and process_cmm_data, silent and verbose
CallVerbose ==
    /\ Fresh
    /\ \E ls \in SeqsUpTo(LinesBoth, MaxLines), japanese \in BOOLEAN, vb \in BOOLEAN :
           \/ CallParse("parse_lines_to_dataframe", ls, japanese, vb)
           \/ CallParse("process_cmm_data", ls, japanese, vb)
           \/ CallParseXY(ls, japanese, vb)

NextVerbose ==
    CallVerbose \/ CallOpposite \/ ExtractStep \/ ReturnFrame \/ ScanStep \/ ReturnXY
        \/ Remember

SpecVerbose == Init /\ [][NextVerbose]_vars

\* one more call on the same parser, at most MaxLater of them after the call
\* the caller keeps
CallAgain ==
    /\ saved.later < MaxLater
    /\ \E ls \in TextsAgain, japanese \in BOOLEAN :
           \/ CallParse("parse_lines_to_dataframe", ls, japanese, FALSE)
           \/ CallParseXY(ls, japanese, FALSE)

NextAgain == CallAgain \/ ExtractStep \/ ReturnFrame \/ ScanStep \/ ReturnXY \/ Remember

SpecAgain == Init /\ [][NextAgain]_vars

\* the call the caller has kept, made again with the other value of
\* use_japanese_columns
CallOtherLabels ==
    /\ saved # NoCall
    /\ saved.later = 0
    /\ CallParse(saved.op, saved.lines, ~saved.japanese, saved.verbose)

\* parse_lines_to_dataframe with Japanese and with internal column names
CallLabels ==
    /\ Fresh
    /\ \E ls \in SeqsUpTo(LinesLabels, MaxLines), japanese \in BOOLEAN :
           CallParse("parse_lines_to_dataframe", ls, japanese, FALSE)

NextLabels == CallLabels \/ CallOtherLabels \/ ExtractStep \/ ReturnFrame \/ Remember

SpecLabels == Init /\ [][NextLabels]_vars

\* parse_lines_to_dataframe on a header and one coordinate line, over the
\* tolerances and deviations
CallTolerances ==
    /\ Fresh
    /\ \E upper \in Tokens, lower \in Tokens, deviation \in Tokens, japanese \in BOOLEAN :
           CallParse("parse_lines_to_dataframe",
                     <<HeaderA, CoordOf(upper, lower, deviation)>>, japanese, FALSE)

NextTolerances == CallTolerances \/ ExtractStep \/ ReturnFrame

SpecTolerances == Init /\ [][NextTolerances]_vars

\* process_cmm_data on a text of headers with their coordinate lines
CallSummary ==
    /\ Fresh
    /\ \E gs \in SeqsUpTo(FragmentsSummary, MaxGroups), japanese \in BOOLEAN :
           CallParse("process_cmm_data", Flatten(gs), japanese, FALSE)

NextSummary == CallSummary \/ ExtractStep \/ ReturnFrame

SpecSummary == Init /\ [][NextSummary]_vars

\* every extraction mode on a text of blank lines, noise, separators and
\* content lines, with create_summary_by_element on the frame returned
CallEmpty ==
    /\ Fresh
    /\ \E ls \in SeqsUpTo(LinesEmpty, MaxLines) :
           \/ CallParse("parse_lines_to_dataframe", ls, TRUE, FALSE)
           \/ CallParse("process_cmm_data", ls, TRUE, FALSE)
           \/ CallParseXY(ls, TRUE, FALSE)

NextEmpty ==
    CallEmpty \/ ExtractStep \/ ExtractRaise \/ ReturnFrame
        \/ ScanStep \/ ScanRaise \/ ReturnXY \/ Summarise

SpecEmpty == Init /\ [][NextEmpty]_vars

\* parse_lines_to_dataframe on a text of blocks with and without headers and
\* statistics lines
CallBlocks ==
    /\ Fresh
    /\ \E gs \in SeqsUpTo(FragmentsBlocks, MaxGroups) :
           CallParse("parse_lines_to_dataframe", Flatten(gs), TRUE, FALSE)

NextBlocks == CallBlocks \/ ExtractStep \/ ReturnFrame

SpecBlocks == Init /\ [][NextBlocks]_vars

\* either parse method on a text of content lines, noise and rules
CallRules ==
    /\ Fresh
    /\ \E ls \in SeqsUpTo(LinesSeg, MaxLines) :
           \/ CallParse("parse_lines_to_dataframe", ls, TRUE, FALSE)
           \/ CallParseXY(ls, TRUE, FALSE)

NextRules == CallRules \/ ExtractStep \/ ReturnFrame \/ ScanStep \/ ReturnXY

SpecRules == Init /\ [][NextRules]_vars

\* parse_xy_coordinates on a text of accepted and rejected features
CallFeature ==
    /\ Fresh
    /\ \E gs \in SeqsUpTo(FragmentsFeature, MaxGroups) :
           CallParseXY(Flatten(gs), TRUE, FALSE)

NextFeature == CallFeature \/ ScanStep \/ ReturnXY

SpecFeature == Init /\ [][NextFeature]_vars

(***************************************************************************)
(* The properties.                                                         *)
(***************************************************************************)
\* the call of method o has returned a frame
Done(o) == pc = "idle" /\ ret.op = o /\ ~ret.raised

\* the name of column k in the returned frame
ColumnLabel(k) == IF use_japanese_columns THEN ColumnTranslation[k] ELSE k

\* column k of row i of the returned frame
Value(i, k) == ret.df.rows[i][ColumnLabel(k)]

\* C1: for every text, parse_lines_to_dataframe and parse_xy_coordinates
\* return without raising: a coordinate line, statistics line or X/Y line
\* with a malformed number is passed over as an unrecognised line
C1_NeverRaises == ~ret.raised

\* C2: in every row parse_lines_to_dataframe returns, status is the unknown
\* marker exactly when the deviation or a tolerance is missing; otherwise it
\* is PASS if lower <= deviation <= upper, both bounds included, and FAIL if
\* not; within_tolerance is true exactly when status is PASS
C2_Status ==
    Done("parse_lines_to_dataframe") =>
        \A i \in 1..Len(ret.df.rows) :
            LET dev   == Value(i, "calculated_deviation")
                upper == Value(i, "upper_tolerance")
                lower == Value(i, "lower_tolerance")
                missing == dev = NaN \/ upper = NaN \/ lower = NaN
            IN  /\ (Value(i, "status") = "N/A") <=> missing
                /\ ~missing =>
                      /\ Value(i, "status") \in {"PASS", "FAIL"}
                      /\ (Value(i, "status") = "PASS")
                            <=> (lower[1] <= dev[1] /\ dev[1] <= upper[1])
                /\ (Value(i, "within_tolerance") = <<TRUE>>) <=> (Value(i, "status") = "PASS")

\* a frame with a row whose deviation lies on the upper bound, which passes,
\* and a row whose deviation lies above it, which fails
C2_Witness ==
    /\ Done("parse_lines_to_dataframe")
    /\ \E i, j \in 1..Len(ret.df.rows) :
           /\ Value(i, "calculated_deviation") = Value(i, "upper_tolerance")
           /\ Value(i, "status") = "PASS"
           /\ Value(j, "calculated_deviation")[1] > Value(j, "upper_tolerance")[1]
           /\ Value(j, "status") = "FAIL"

\* the line the loop of parse_lines_to_dataframe is at
CurrentLine == datasets[dataset_idx + 1][line_idx + 1]

\* the loop of parse_lines_to_dataframe takes a step inside a dataset
InDataset == pc = "extract" /\ pc' = "extract" /\ dataset_idx' = dataset_idx

\* the context a header with point count gives
HeaderInfo(line) ==
    [element_name     |-> ElementMatch(line).g[1],
     measurement_type |-> ElementMatch(line).g[2],
     point_count      |-> IntOf(ElementMatch(line).g[3]),
     side             |-> IF ElementMatch(line).g[4] = <<>> THEN NotApplicable
                          ELSE ElementMatch(line).g[4]]

AcceptedHeader(d, l) ==
    \/ ElementMatch(datasets[d][l]).ok
    \/ l = 1 /\ SimpleElementMatch(datasets[d][l]).ok

\* the accepted headers of dataset d before its line l
HeadersBefore(d, l) == {h \in 1..(l - 1) : AcceptedHeader(d, h)}

\* line l of dataset d has the coordinate-data shape
CoordShaped(d, l) ==
    /\ NamedCoordMatch(datasets[d][l]).ok
    /\ ~AcceptedHeader(d, l)
    /\ ~StatsMatch(datasets[d][l]).ok

\* the coordinate lines of dataset d that follow an accepted header, in order
CoordLines(d) ==
    LET Follows(l) == CoordShaped(d, l) /\ HeadersBefore(d, l) # {}
    IN  SelectSeq([l \in 1..Len(datasets[d]) |-> l], Follows)

\* the tag of the nearest accepted header of dataset d before its line l
NearestTag(d, l) ==
    SimpleElementMatch(
        datasets[d][CHOOSE h \in HeadersBefore(d, l) :
                        \A g \in HeadersBefore(d, l) : g <= h]).g[1]

\* for the coordinate lines of the text in order: the feature name and the
\* coordinate name the record of each is to carry
ExpectedNames ==
    Flatten([d \in 1..Len(datasets) |->
                [n \in 1..Len(CoordLines(d)) |->
                    [element_name    |-> NearestTag(d, CoordLines(d)[n]),
                     coordinate_name |-> NamedCoordMatch(
                                             datasets[d][CoordLines(d)[n]]).g[1]]]])

\* the number of lines of the datasets that have the coordinate-data shape
CoordShapedCount ==
    Cardinality({x \in (1..Len(datasets)) \X (1..MaxLines + 1) :
                    x[2] <= Len(datasets[x[1]]) /\ CoordShaped(x[1], x[2])})

\* C4: parse_lines_to_dataframe returns at most one record per content line
\* of the coordinate-data shape, the records in the order of their lines,
\* each under the tag of the nearest accepted feature header before its
\* line in the same block, never under a tag of an earlier block
C4_RecordsFollowLines ==
    Done("parse_lines_to_dataframe") =>
        /\ Len(ret.df.rows) <= CoordShapedCount
        /\ Len(ret.df.rows) = Len(ExpectedNames)
        /\ \A i \in 1..Len(ret.df.rows) :
               /\ Value(i, "element_name") = ExpectedNames[i].element_name
               /\ Value(i, "coordinate_name") = ExpectedNames[i].coordinate_name

\* a header and two coordinate lines: two records in the order of the
\* lines, both under the tag of the header
C4_Witness ==
    /\ Done("parse_lines_to_dataframe")
    /\ lines = <<HeaderA, CoordFail, CoordPass>>
    /\ Len(ret.df.rows) = 2
    /\ Value(1, "element_name") = TagCircle1
    /\ Value(2, "element_name") = TagCircle1
    /\ Value(1, "coordinate_name") = NamedCoordMatch(CoordFail).g[1]
    /\ Value(2, "coordinate_name") = NamedCoordMatch(CoordPass).g[1]

\* a content line: not blank, no page-header noise, no separator
IsContent(line) == line # <<>> /\ ~IsHeaderDF(line) /\ ~IsSeparator(line)

\* the positions of the content lines of the text, in order
ContentAt ==
    LET Content(i) == IsContent(Strip(lines[i]))
    IN  SelectSeq([i \in 1..Len(lines) |-> i], Content)

\* the block that holds the j-th content line
BlockOf(j) ==
    CHOOSE b \in 1..Len(datasets) :
        /\ Len(Flatten(SubSeq(datasets, 1, b - 1))) < j
        /\ j <= Len(Flatten(SubSeq(datasets, 1, b)))

\* a separator stands at or after line i and at or before line k
SeparatorBetween(i, k) == \E x \in i..k : IsSeparator(Strip(lines[x]))

\* C5: the blocks are not empty; joined in order they are the content lines
\* of the text, trimmed, in order; two content lines are in one block
\* exactly when no separator lies between them; the content lines after the
\* last separator are the last block
C5_Segmentation ==
    op # "" =>
        /\ \A b \in 1..Len(datasets) : datasets[b] # <<>>
        /\ Flatten(datasets) = [j \in 1..Len(ContentAt) |-> Strip(lines[ContentAt[j]])]
        /\ \A j, k \in 1..Len(ContentAt) :
               j < k => ((BlockOf(j) = BlockOf(k))
                            <=> ~SeparatorBetween(ContentAt[j], ContentAt[k]))
        /\ \A j \in 1..Len(ContentAt) :
               ~SeparatorBetween(ContentAt[j], Len(lines)) => BlockOf(j) = Len(datasets)

\* a line to trim, a separator, then a line at the end of the text: two
\* blocks, the second the in-progress block of the end
C5_Witness ==
    /\ op # ""
    /\ lines = <<Bar, MixedSeparator, Foo>>
    /\ datasets = <<<<Strip(Bar)>>, <<Foo>>>>

\* the tag is the prefix followed by one or more digits and nothing else
DigitsAfter(tag, prefix) ==
    /\ Len(tag) > Len(prefix)
    /\ SubSeq(tag, 1, Len(prefix)) = prefix
    /\ \A i \in (Len(prefix) + 1)..Len(tag) : tag[i] \in Digits

ExactTag(tag) == DigitsAfter(tag, CirclePrefix) \/ DigitsAfter(tag, DPrefix)

\* the line the loop of parse_xy_coordinates is at
CurrentClean == clean_lines[line_idx + 1]

\* the loop of parse_xy_coordinates takes a step on a feature-header line
HeaderStep == pc = "scan" /\ pc' = "scan" /\ SimpleElementMatch(CurrentClean).ok

\* the tag of the header line the loop is at
HeaderTag == SimpleElementMatch(CurrentClean).g[1]

\* C6: a feature-header line starts the tracking of its tag exactly when the
\* tag is the circle prefix or the d-group prefix followed by one or more
\* digits and nothing else; a header with any other tag leaves the scan as
\* it is; every feature name parse_xy_coordinates returns passes the filter
C6_AcceptanceFilter ==
    [][/\ (HeaderStep /\ ExactTag(HeaderTag)) =>
              current_element' = HeaderTag /\ looking_for_x'
       /\ (HeaderStep /\ ~ExactTag(HeaderTag)) =>
              UNCHANGED <<current_element, looking_for_x, looking_for_y, current_x,
                          xy_records>>
       /\ (pc' = "idle" /\ ~ret'.raised) =>
              \A i \in 1..Len(ret'.df.rows) :
                  ExactTag(ret'.df.rows[i][ColumnLabel("element_name")])
      ]_vars

\* the header of a tag with a letter after its digits and an X line have
\* been passed over, then an accepted tag was completed: the frame holds the
\* accepted tag alone
C6_Witness ==
    /\ Done("parse_xy_coordinates")
    /\ lines = <<HeaderOf(TagCircle12A), XLine, HeaderOf(TagCircle2), XLineNeg, YLine>>
    /\ Len(ret.df.rows) = 2
    /\ Value(1, "element_name") = TagCircle2
    /\ Value(1, "value") = Abs(FloatOf(<<"-", "3">>))

Suffix(tag) ==
    IF DigitsAfter(tag, CirclePrefix)
    THEN IntOf(SubSeq(tag, Len(CirclePrefix) + 1, Len(tag)))
    ELSE IntOf(SubSeq(tag, Len(DPrefix) + 1, Len(tag)))

\* the record that rows 2j-1 and 2j of the returned frame make
RecordOfRows(j) ==
    [element_name |-> Value(2 * j, "element_name"),
     x_coordinate |-> Value(2 * j - 1, "value"),
     y_coordinate |-> Value(2 * j, "value")]

\* the orders of n records
Orders(n) == {f \in [1..n -> 1..n] : \A a, b \in 1..n : f[a] = f[b] => a = b}

\* C8: parse_xy_coordinates returns two rows per completed record, an X row
\* then a Y row under the same tag; every completed record appears once;
\* the circle records come before the d-group records; within a family the
\* records ascend by the integer after the prefix, and records with the
\* same integer keep the order they were completed in
C8_OutputOrder ==
    Done("parse_xy_coordinates") =>
        /\ Len(ret.df.rows) = 2 * Len(xy_records)
        /\ \A j \in 1..Len(xy_records) :
               /\ Value(2 * j - 1, "coordinate_type") = "X"
               /\ Value(2 * j, "coordinate_type") = "Y"
               /\ Value(2 * j - 1, "element_name") = Value(2 * j, "element_name")
        /\ \E f \in Orders(Len(xy_records)) :
               /\ \A j \in 1..Len(xy_records) : RecordOfRows(j) = xy_records[f[j]]
               /\ \A j, k \in 1..Len(xy_records) :
                      (j < k) =>
                          LET a == xy_records[f[j]].element_name
                              b == xy_records[f[k]].element_name
                              same == DigitsAfter(a, CirclePrefix) = DigitsAfter(b, CirclePrefix)
                          IN  /\ ~same => DigitsAfter(a, CirclePrefix)
                              /\ same => Suffix(a) <= Suffix(b)
                              /\ (same /\ Suffix(a) = Suffix(b)) => f[j] < f[k]

\* circle 10, then circle 2 were completed: the frame holds the rows of
\* circle 2 before those of circle 10
C8_Witness ==
    /\ Done("parse_xy_coordinates")
    /\ Len(xy_records) = 2
    /\ xy_records[1].element_name = TagCircle10
    /\ xy_records[2].element_name = TagCircle2
    /\ Len(ret.df.rows) = 4
    /\ Value(1, "element_name") = TagCircle2
    /\ Value(3, "element_name") = TagCircle10

\* the call that has returned is the call the caller has kept, made again
SameCallAgain ==
    /\ pc = "idle"
    /\ ret.op # ""
    /\ saved # NoCall
    /\ saved.later > 0
    /\ op = saved.op
    /\ lines = saved.lines
    /\ use_japanese_columns = saved.japanese

\* C9: a parse method called again on the same text returns what it
\* returned before, also on the same parser and with other parse calls in
\* between; no parse call changes the fields of the parser
C9_Idempotent ==
    /\ version = "1.2.0"
    /\ column_translation = ColumnTranslation
    /\ SameCallAgain => ret = saved.ret

\* the kept call has been made again after another call, and has returned a
\* frame with rows
C9_Witness ==
    /\ SameCallAgain
    /\ saved.later >= 2
    /\ Len(ret.df.rows) > 0

\* C10: verbose has no effect on what is returned: parse_lines_to_dataframe,
\* parse_xy_coordinates and process_cmm_data, called on the same text with
\* the same use_japanese_columns, return the same with verbose set and not
C10_VerboseNoEffect ==
    (SameCallAgain /\ verbose # saved.verbose) => ret = saved.ret

\* a call has been made silent and made again verbose: the second has
\* printed, and has returned a frame with rows
C10_WitnessXY ==
    /\ SameCallAgain
    /\ op = "parse_xy_coordinates"
    /\ verbose /\ ~saved.verbose
    /\ stdout > 0
    /\ Len(ret.df.rows) > 0

\* the call that has returned is the call the caller has kept, made again
\* with the other value of use_japanese_columns
OtherLabelsAgain ==
    /\ pc = "idle"
    /\ ret.op # ""
    /\ ~ret.raised
    /\ saved # NoCall
    /\ saved.later > 0
    /\ op = saved.op
    /\ lines = saved.lines
    /\ use_japanese_columns # saved.japanese

\* the frame of the two calls that was made with the Japanese names, and the
\* one that was made with the internal names
JapaneseFrame == IF use_japanese_columns THEN ret.df ELSE saved.ret.df

InternalFrame == IF use_japanese_columns THEN saved.ret.df ELSE ret.df

\* C11: parse_lines_to_dataframe called on the same text with and without
\* use_japanese_columns returns the same number of rows and of columns; the
\* i-th column of the one is the translation of the i-th column of the
\* other, the translation giving different names to different columns; and
\* every cell of a row holds the same value under either name
C11_LabelsCosmetic ==
    OtherLabelsAgain =>
        /\ Len(JapaneseFrame.rows) = Len(InternalFrame.rows)
        /\ Len(JapaneseFrame.columns) = Len(InternalFrame.columns)
        /\ \A j \in 1..Len(InternalFrame.columns) :
               /\ InternalFrame.columns[j] \in DOMAIN ColumnTranslation
               /\ JapaneseFrame.columns[j] = ColumnTranslation[InternalFrame.columns[j]]
               /\ \A k \in 1..Len(InternalFrame.columns) :
                      j # k => JapaneseFrame.columns[j] # JapaneseFrame.columns[k]
               /\ \A i \in 1..Len(InternalFrame.rows) :
                      JapaneseFrame.rows[i][JapaneseFrame.columns[j]]
                          = InternalFrame.rows[i][InternalFrame.columns[j]]

\* a text with a statistics line, called under both sets of names: one row
\* of all twenty-two columns, the standard deviation under either name
C11_Witness ==
    /\ OtherLabelsAgain
    /\ lines = <<HeaderA, StatsA, CoordPass>>
    /\ Len(InternalFrame.rows) = 1
    /\ Len(JapaneseFrame.columns) = Len(JapaneseColumnOrder)
    /\ InternalFrame.rows[1]["std_dev"] = Num(FloatOf(<<"0", ".", "0", "0", "1">>))
    /\ JapaneseFrame.rows[1][ColumnTranslation["std_dev"]] = InternalFrame.rows[1]["std_dev"]

\* C12: in every row parse_lines_to_dataframe returns, tolerance_range is
\* upper_tolerance - lower_tolerance; tolerance_utilization is 0 when the
\* range is zero, and otherwise a number of two decimals nearest to
\* |calculated_deviation| / (tolerance_range / 2) * 100
C12_Utilization ==
    Done("parse_lines_to_dataframe") =>
        \A i \in 1..Len(ret.df.rows) :
            LET upper == Value(i, "upper_tolerance")[1]
                lower == Value(i, "lower_tolerance")[1]
                dev   == Value(i, "calculated_deviation")[1]
                range == Value(i, "tolerance_range")
                util  == Value(i, "tolerance_utilization")
            IN  /\ range = Num(upper - lower)
                /\ util # NaN
                /\ (upper = lower) => util = Num(0)
                /\ (upper # lower) =>
                       2 * Abs(util[1] * (upper - lower)
                                   - Abs(dev) * 2 * 100 * Pow10(UtilDigits))
                           <= Abs(upper - lower)

\* upper 0.02, lower -0.02 and deviation 0.01: the range is 0.04 and the
\* utilization 50.00
C12_Witness ==
    /\ Done("parse_lines_to_dataframe")
    /\ lines = <<HeaderA, CoordOf(<<"0", ".", "0", "2">>, <<"-", "0", ".", "0", "2">>,
                                  <<"0", ".", "0", "1">>)>>
    /\ Len(ret.df.rows) = 1
    /\ Value(1, "tolerance_range") = Num(FloatOf(<<"0", ".", "0", "4">>))
    /\ Value(1, "tolerance_utilization") = Num(50 * Pow10(UtilDigits))

\* equal tolerances and a deviation that is not zero: the range is zero and
\* the utilization 0
C12_ZeroRange ==
    /\ Done("parse_lines_to_dataframe")
    /\ Len(ret.df.rows) = 1
    /\ Value(1, "upper_tolerance") = Value(1, "lower_tolerance")
    /\ Value(1, "calculated_deviation") # Num(0)
    /\ Value(1, "tolerance_range") = Num(0)
    /\ Value(1, "tolerance_utilization") = Num(0)

\* the rows of the returned frame under feature name n
RowsOf(n) == {i \in 1..Len(ret.df.rows) : Value(i, "element_name") = n}

\* the first of them
FirstOf(n) == CHOOSE i \in RowsOf(n) : \A j \in RowsOf(n) : i <= j

\* those of them within tolerance
PassesOf(n) == {i \in RowsOf(n) : Value(i, "within_tolerance") = <<TRUE>>}

\* C13: the summary of a frame with rows has exactly one row per feature
\* name of the frame; its coordinate_count is the number of rows of the
\* feature, its pass_count the number of them within tolerance, its
\* pass_rate a number of one decimal nearest to pass_count /
\* coordinate_count * 100; its measurement type, point count and side are
\* those of the first row of the feature
C13_SummaryRows ==
    (Done("process_cmm_data") /\ Len(ret.df.rows) > 0) =>
        /\ DOMAIN ret.summary.rows = {Value(i, "element_name") : i \in 1..Len(ret.df.rows)}
        /\ \A n \in DOMAIN ret.summary.rows :
               LET row == ret.summary.rows[n]
               IN  /\ row.coordinate_count = Cardinality(RowsOf(n))
                   /\ row.pass_count = Cardinality(PassesOf(n))
                   /\ row.pass_rate # NaN
                   /\ 2 * Abs(row.pass_rate[1] * Cardinality(RowsOf(n))
                                  - Cardinality(PassesOf(n)) * 100 * Pow10(RateDigits))
                          <= Cardinality(RowsOf(n))
                   /\ row.measurement_type = Value(FirstOf(n), "measurement_type")
                   /\ row.point_count = Value(FirstOf(n), "point_count")
                   /\ row.side = Value(FirstOf(n), "side")

\* four rows of one feature, three of them within tolerance: one summary
\* row, with the pass rate 75.0
C13_Witness ==
    /\ Done("process_cmm_data")
    /\ lines = <<HeaderA, CoordPass, CoordPass, CoordPass, CoordFail>>
    /\ DOMAIN ret.summary.rows = {TagCircle1}
    /\ ret.summary.rows[TagCircle1].coordinate_count = 4
    /\ ret.summary.rows[TagCircle1].pass_count = 3
    /\ ret.summary.rows[TagCircle1].pass_rate = Num(75 * Pow10(RateDigits))

\* two features, one of them under two headers of different type, count and
\* side: two summary rows, the first header's values in the row of the first
C13_TwoFeatures ==
    /\ Done("process_cmm_data")
    /\ lines = <<HeaderA, CoordFail, HeaderA2, CoordFail>>
         \/ lines = <<HeaderA, CoordPass, CoordPass, HeaderA2, CoordFail>>
    /\ ret.summary.rows[TagCircle1].measurement_type = PointType
    /\ ret.summary.rows[TagCircle1].point_count = 4
    /\ ret.summary.rows[TagCircle1].side = Inside

\* a call has ended, by a return or by an exception, with no record extracted
EndedWithoutRecord ==
    /\ pc = "idle"
    /\ ret.op # ""
    /\ IF op = "parse_xy_coordinates" THEN xy_records = <<>>
       ELSE measurement_records = <<>>

\* C14: a call of parse_lines_to_dataframe, parse_xy_coordinates or
\* process_cmm_data that extracts no record raises nothing and returns an
\* empty table (process_cmm_data two of them), and
\* create_summary_by_element returns an empty table for an empty one
C14_EmptyResult ==
    EndedWithoutRecord =>
        /\ ~ret.raised
        /\ ret.df = EmptyFrame
        /\ ret.summary = EmptyFrame

\* the part of C14 on the calls that return: with no record extracted the
\* tables returned are empty
C14_EmptyWhenReturned ==
    (EndedWithoutRecord /\ ~ret.raised) =>
        /\ ret.df = EmptyFrame
        /\ ret.summary = EmptyFrame

\* the statistics lines of dataset d before its line l
StatsBefore(d, l) ==
    {h \in 1..(l - 1) : StatsMatch(datasets[d][h]).ok /\ ~AcceptedHeader(d, h)}

\* the statistics the most recent statistics line of dataset d before its
\* line l gives, none without such a line
NearestStats(d, l) ==
    IF StatsBefore(d, l) = {}
    THEN [std_dev |-> NaN, min_value |-> NaN, max_value |-> NaN, form_error |-> NaN]
    ELSE LET m == StatsMatch(datasets[d][CHOOSE h \in StatsBefore(d, l) :
                                            \A g \in StatsBefore(d, l) : g <= h])
         IN  [std_dev |-> Num(FloatOf(m.g[1])), min_value |-> Num(FloatOf(m.g[3])),
              max_value |-> Num(FloatOf(m.g[5])), form_error |-> Num(FloatOf(m.g[6]))]

\* for the coordinate lines of the text in order: the statistics the record
\* of each is to carry
ExpectedStats ==
    Flatten([d \in 1..Len(datasets) |->
                [n \in 1..Len(CoordLines(d)) |-> NearestStats(d, CoordLines(d)[n])]])

\* column k of row i of the returned frame, nothing when the frame has no
\* such column
Statistic(i, k) ==
    IF ColumnLabel(k) \in DOMAIN ret.df.rows[i] THEN Value(i, k) ELSE NaN

\* C15: every record parse_lines_to_dataframe returns carries the standard
\* deviation, minimum, maximum and form error of the most recent statistics
\* line before its coordinate line in the same block, a later statistics
\* line counting for the records after it alone; a record with no
\* statistics line before it in its block carries none
C15_StatsScope ==
    Done("parse_lines_to_dataframe") =>
        /\ Len(ret.df.rows) = Len(ExpectedStats)
        /\ \A i \in 1..Len(ret.df.rows) :
               \A k \in DOMAIN ExpectedStats[i] : Statistic(i, k) = ExpectedStats[i][k]

\* a record after the first statistics line and a record after a second one
\* in the same block: each carries the statistics of the line before it
C15_Witness ==
    /\ Done("parse_lines_to_dataframe")
    /\ lines = <<HeaderA, StatsA, CoordPass, StatsB, CoordFail>>
    /\ Len(ret.df.rows) = 2
    /\ Value(1, "std_dev") = Num(FloatOf(<<"0", ".", "0", "0", "1">>))
    /\ Value(1, "min_value") = Num(FloatOf(<<"-", "0", ".", "0", "1">>))
    /\ Value(2, "std_dev") = Num(FloatOf(<<"0", ".", "5">>))
    /\ Value(2, "form_error") = Num(FloatOf(<<"0", ".", "2", "5">>))

\* a block with a statistics line, then a block with none: the record of
\* the second block carries no statistics
C15_OtherBlock ==
    /\ Done("parse_lines_to_dataframe")
    /\ lines = <<HeaderA, StatsA, CoordPass, SeparatorLine, HeaderA, CoordFail>>
    /\ Len(ret.df.rows) = 2
    /\ Value(1, "std_dev") # NaN
    /\ Value(2, "std_dev") = NaN
    /\ Value(2, "form_error") = NaN

\* C16: parse_lines_to_dataframe makes a record only on a line of the
\* coordinate-data shape that has an accepted feature header before it in
\* its block; at the first line of every block the feature context and the
\* statistics context are empty, whatever the earlier blocks held
C16_HeaderRequired ==
    [][/\ (pc = "extract" /\ Len(measurement_records') > Len(measurement_records)) =>
              /\ NamedCoordMatch(CurrentLine).ok
              /\ HeadersBefore(dataset_idx + 1, line_idx + 1) # {}
       /\ (pc' = "extract" /\ line_idx' = 0) =>
              /\ blue_tag' = None
              /\ element_info' = EmptyDict
              /\ stats_info' = EmptyDict
      ]_vars

\* a block with a header, a statistics line and a record, then a block with
\* a coordinate line and no header: the loop is at the end of the second
\* block and the first block's record is the only one
C16_Witness ==
    /\ Done("parse_lines_to_dataframe")
    /\ lines = <<HeaderA, StatsA, CoordPass, SeparatorLine, CoordFail>>
    /\ Len(datasets) = 2
    /\ NamedCoordMatch(datasets[2][1]).ok
    /\ Len(measurement_records) = 1
    /\ Len(ret.df.rows) = 1
    /\ Value(1, "coordinate_name") = NamedCoordMatch(CoordPass).g[1]

\* the loop of parse_lines_to_dataframe takes a step, inside a dataset, on a
\* line of the header shape without point count
SimpleHeaderStep ==
    /\ InDataset
    /\ ~ElementMatch(CurrentLine).ok
    /\ SimpleElementMatch(CurrentLine).ok

\* C17: a line of the header shape without point count sets the feature
\* context, with point count 0 and the side not applicable, when it is the
\* first line of its block (no header has matched yet there); at any later
\* line of the block it leaves the feature context as it is, set or not
C17_SimpleHeaderFirstLine ==
    [][/\ (SimpleHeaderStep /\ line_idx = 0) =>
              /\ blue_tag = None
              /\ blue_tag' = SimpleElementMatch(CurrentLine).g[1]
              /\ element_info' =
                     [element_name     |-> SimpleElementMatch(CurrentLine).g[1],
                      measurement_type |-> SimpleElementMatch(CurrentLine).g[2],
                      point_count      |-> 0,
                      side             |-> NotApplicable]
       /\ (SimpleHeaderStep /\ line_idx > 0) =>
              UNCHANGED <<blue_tag, element_info>>
      ]_vars

\* a coordinate line, then a header without point count as the second line
\* of the block and a coordinate line: no context is set and no record made
C17_Witness ==
    /\ Done("parse_lines_to_dataframe")
    /\ lines = <<CoordPass, HeaderSimple, CoordPass>>
    /\ Len(datasets) = 1
    /\ measurement_records = <<>>
    /\ ret.df = EmptyFrame

\* a header without point count as the first line of the text, then a
\* coordinate line: the record has point count 0 and no side
C17_FirstLine ==
    /\ Done("parse_lines_to_dataframe")
    /\ lines = <<HeaderSimple, CoordPass>>
    /\ Len(ret.df.rows) = 1
    /\ Value(1, "element_name") = TagD3
    /\ Value(1, "point_count") = 0
    /\ Value(1, "side") = NotApplicable

\* the states of the scan of parse_xy_coordinates
Idle == current_element = None

AwaitingX == current_element # None /\ looking_for_x

AwaitingY == current_element # None /\ current_x # None /\ looking_for_y

\* the loop of parse_xy_coordinates takes a step on a line that is no
\* feature header
OtherStep == pc = "scan" /\ pc' = "scan" /\ ~SimpleElementMatch(CurrentClean).ok

\* line h of clean_lines is the header of an accepted tag
AcceptedAt(h) ==
    /\ SimpleElementMatch(clean_lines[h]).ok
    /\ ExactTag(SimpleElementMatch(clean_lines[h]).g[1])

\* the tag tracked was set by line h, its X taken from line x after it, and
\* no header of an accepted tag has come since line h
TagThenX(h, x) ==
    /\ h < x
    /\ AcceptedAt(h)
    /\ SimpleElementMatch(clean_lines[h]).g[1] = current_element
    /\ \A g \in (h + 1)..line_idx : ~AcceptedAt(g)
    /\ ~SimpleElementMatch(clean_lines[x]).ok
    /\ AxisMatch(clean_lines[x], "X").ok
    /\ current_x = <<Abs(FloatOf(AxisMatch(clean_lines[x], "X").g[1]))>>

\* C18: on a line that is no feature header, the scan takes an X only while
\* it awaits the X of a tag, and then awaits the Y; it takes a Y only while
\* it awaits the Y, and then appends one record of the tag, |X| and |Y|,
\* the tag line, the X line and the Y line having come in that order, and
\* goes idle; any other such line changes nothing, an X or Y line met while
\* idle included; there are never more records than accepted tag lines
C18_ScanTransitions ==
    [][/\ OtherStep =>
              IF AwaitingX /\ AxisMatch(CurrentClean, "X").ok
              THEN /\ current_x' = <<Abs(FloatOf(AxisMatch(CurrentClean, "X").g[1]))>>
                   /\ ~looking_for_x' /\ looking_for_y'
                   /\ UNCHANGED <<current_element, xy_records>>
              ELSE IF AwaitingY /\ AxisMatch(CurrentClean, "Y").ok
              THEN /\ xy_records' =
                          Append(xy_records,
                              [element_name |-> current_element,
                               x_coordinate |-> current_x[1],
                               y_coordinate |->
                                   Abs(FloatOf(AxisMatch(CurrentClean, "Y").g[1]))])
                   /\ \E h, x \in 1..line_idx : TagThenX(h, x)
                   /\ current_element' = None /\ current_x' = None
                   /\ ~looking_for_x' /\ ~looking_for_y'
              ELSE UNCHANGED <<current_element, looking_for_x, looking_for_y,
                               current_x, xy_records>>
       /\ (pc' = "scan") =>
              Len(xy_records') <= Cardinality({h \in 1..line_idx' : AcceptedAt(h)})
       /\ (pc' = "scan") => ~(AwaitingX' /\ AwaitingY')
      ]_vars

\* a tag, its X line, a second X line and a Y line: the second X line was
\* passed over and the record holds the first X
C18_Witness ==
    /\ Done("parse_xy_coordinates")
    /\ lines = <<HeaderOf(TagCircle2), XLine, XLineNeg, YLine>>
    /\ xy_records = <<[element_name |-> TagCircle2,
                       x_coordinate |-> FloatOf(<<"1", ".", "5">>),
                       y_coordinate |-> FloatOf(<<"2">>)]>>

\* an X line and a Y line met while idle, then a tag with its X line and Y
\* line: one record, of the tag and its own X
C18_Ignored ==
    /\ Done("parse_xy_coordinates")
    /\ lines = <<XLineNeg, YLine, HeaderOf(TagCircle2), XLine, YLine>>
    /\ xy_records = <<[element_name |-> TagCircle2,
                       x_coordinate |-> FloatOf(<<"1", ".", "5">>),
                       y_coordinate |-> FloatOf(<<"2">>)]>>

\* C19: a feature-header line whose tag the filter does not accept leaves
\* the tag tracked, the pending X, what the scan awaits and the records as
\* they are, whether the scan is idle, awaits an X or awaits a Y; an X or Y
\* value on the line is not taken
C19_RejectedHeaderIgnored ==
    [][(HeaderStep /\ ~ExactTag(HeaderTag)) =>
          /\ UNCHANGED <<current_element, current_x, xy_records>>
          /\ Idle' = Idle
          /\ AwaitingX' = AwaitingX
          /\ AwaitingY' = AwaitingY
          /\ looking_for_x' = looking_for_x
          /\ looking_for_y' = looking_for_y
      ]_vars

\* a tag awaits its X and the header of a rejected tag comes with an X
\* value on its line: the X is still awaited and none is pending
C19_Witness ==
    /\ pc = "scan"
    /\ line_idx = 2
    /\ clean_lines = <<HeaderOf(TagCircle2), RejectedWithXY>>
    /\ AxisMatch(clean_lines[2], "X").ok
    /\ current_element = TagCircle2
    /\ AwaitingX
    /\ current_x = None

\* a tag awaits its Y and the header of a rejected tag comes with a Y value
\* on its line: the Y is still awaited and no record is made
C19_AwaitingY ==
    /\ pc = "scan"
    /\ line_idx = 3
    /\ clean_lines = <<HeaderOf(TagCircle2), XLine, RejectedWithXY>>
    /\ AxisMatch(clean_lines[3], "Y").ok
    /\ current_element = TagCircle2
    /\ AwaitingY
    /\ xy_records = <<>>

\* the scan is idle and the header of a rejected tag comes: it stays idle
C19_WhileIdle ==
    /\ pc = "scan"
    /\ line_idx = 1
    /\ SimpleElementMatch(clean_lines[1]).ok
    /\ ~ExactTag(SimpleElementMatch(clean_lines[1]).g[1])
    /\ Idle
    /\ ~looking_for_x /\ ~looking_for_y

\* the characters of a rule
RuleChars == {"=", "_", "-"}

\* ten or more characters, each of them a rule character
MixedRule(line) ==
    /\ Len(line) >= MinSeparatorLen
    /\ \A i \in 1..Len(line) : line[i] \in RuleChars

\* ten or more times one and the same rule character
OneCharRule(line) ==
    /\ MixedRule(line)
    /\ \A i \in 1..Len(line) : line[i] = line[1]

\* the line is page-header noise for the method called
NoiseLineOf(line) ==
    IF op = "parse_xy_coordinates" THEN IsHeaderXY(line) ELSE IsHeaderDF(line)

\* the lines the method called has kept, in order
KeptLines == IF op = "parse_xy_coordinates" THEN clean_lines ELSE Flatten(datasets)

\* the positions of the lines of the text that are not blank, noise or a
\* rule by Rule
KeptAt(Rule(_)) ==
    LET Kept(i) == /\ Strip(lines[i]) # <<>>
                   /\ ~NoiseLineOf(Strip(lines[i]))
                   /\ ~Rule(Strip(lines[i]))
    IN  SelectSeq([i \in 1..Len(lines) |-> i], Kept)

\* the lines that are a rule by Rule, and no others, are taken as
\* separators: they are not kept, and in parse_lines_to_dataframe two kept
\* lines are in one block exactly when no such line lies between them
SeparatorsAre(Rule(_)) ==
    op # "" =>
        /\ KeptLines = [j \in 1..Len(KeptAt(Rule)) |-> Strip(lines[KeptAt(Rule)[j]])]
        /\ op # "parse_xy_coordinates" =>
               \A j, k \in 1..Len(KeptAt(Rule)) :
                   j < k =>
                       ((BlockOf(j) = BlockOf(k))
                           <=> ~\E x \in KeptAt(Rule)[j]..KeptAt(Rule)[k] :
                                   Rule(Strip(lines[x])))

\* C20 as amended: a line is taken as a separator, by both parse methods,
\* exactly when it has ten or more characters and each of them is '=', '_'
\* or '-', the characters mixed or not: such a line is dropped and, in
\* parse_lines_to_dataframe, closes the block; a shorter rule is content
C20_SeparatorClass == SeparatorsAre(MixedRule)

\* a rule one character short, a rule of mixed characters and a content
\* line: the short rule is kept as content, the mixed rule closes its block
C20_Witness ==
    /\ pc = "extract"
    /\ lines = <<ShortRule, MixedSeparator, Foo>>
    /\ datasets = <<<<ShortRule>>, <<Foo>>>>

\* parse_xy_coordinates drops the rule of mixed characters
C20_WitnessXY ==
    /\ pc = "scan"
    /\ lines = <<Foo, MixedSeparator, ShortRule>>
    /\ clean_lines = <<Foo, ShortRule>>

\* C20 as stated: a line is taken as a separator exactly when it is one of
\* '=', '_', '-' repeated ten or more times; a line of ten or more of these
\* characters mixed is content and closes no block
C20_OneCharOnly == SeparatorsAre(OneCharRule)

\* the tag tracked was set by line h, its X taken from line x after it, and
\* no line of the feature-header shape, its tag accepted or not, has come
\* since line h
OwnTagThenX(h, x) ==
    /\ TagThenX(h, x)
    /\ \A g \in (h + 1)..line_idx : ~SimpleElementMatch(clean_lines[g]).ok

\* C21: when parse_xy_coordinates appends a record, the X and the Y of the
\* record come from lines after the accepted tag line of the record with no
\* line of the feature-header shape, accepted or rejected, between the tag
\* line and the Y line; a tag met by a rejected header while it awaits its
\* X or Y is not completed by the X and Y lines after that header
C21_OwnFeature ==
    [][(pc = "scan" /\ Len(xy_records') > Len(xy_records)) =>
          \E h, x \in 1..line_idx : OwnTagThenX(h, x)
      ]_vars

\* the part of C21 that holds: the X and the Y of a record come from lines
\* after its accepted tag line, with no accepted tag line in between
C21_NoAcceptedHeaderBetween ==
    [][(pc = "scan" /\ Len(xy_records') > Len(xy_records)) =>
          \E h, x \in 1..line_idx : TagThenX(h, x)
      ]_vars

\* the five numbers of a coordinate line
FiveNumbers ==
    {"measured_value", "expected_value", "upper_tolerance", "lower_tolerance",
     "calculated_deviation"}

\* C22: every row parse_lines_to_dataframe returns holds a number in each of
\* measured value, expected value, upper tolerance, lower tolerance and
\* deviation, so within_tolerance is true or false and the status PASS or
\* FAIL, never the unknown marker
C22_NoUnknownStatus ==
    Done("parse_lines_to_dataframe") =>
        \A i \in 1..Len(ret.df.rows) :
            /\ \A k \in FiveNumbers :
                   /\ ColumnLabel(k) \in DOMAIN ret.df.rows[i]
                   /\ Value(i, k) # NaN
            /\ Value(i, "within_tolerance") \in {<<TRUE>>, <<FALSE>>}
            /\ Value(i, "status") \in {"PASS", "FAIL"}

\* a row with statistics and a row of another block without: the second
\* has no statistics, holds its five numbers and has the status FAIL
C22_Witness ==
    /\ Done("parse_lines_to_dataframe")
    /\ Len(ret.df.rows) = 2
    /\ ColumnLabel("std_dev") \in DOMAIN ret.df.rows[1]
    /\ Value(1, "std_dev") # NaN
    /\ Value(1, "status") = "PASS"
    /\ Value(2, "std_dev") = NaN
    /\ \A k \in FiveNumbers : Value(2, k) # NaN
    /\ Value(2, "status") = "FAIL"

\* the coordinate_count of every summary row
CoordinateCounts ==
    [n \in DOMAIN ret.summary.rows |-> ret.summary.rows[n].coordinate_count]

\* C23: the coordinate_count values of the summary rows sum to the number of
\* rows of the frame summarised, and in every summary row coordinate_count is
\* at least 1, pass_count lies between 0 and coordinate_count and pass_rate
\* between 0 and 100
C23_Conservation ==
    Done("process_cmm_data") =>
        /\ SumOver(CoordinateCounts, DOMAIN ret.summary.rows) = Len(ret.df.rows)
        /\ \A n \in DOMAIN ret.summary.rows :
               LET row == ret.summary.rows[n]
               IN  /\ row.coordinate_count >= 1
                   /\ 0 <= row.pass_count
                   /\ row.pass_count <= row.coordinate_count
                   /\ row.pass_rate # NaN
                   /\ 0 <= row.pass_rate[1]
                   /\ row.pass_rate[1] <= 100 * Pow10(RateDigits)

\* three rows under two features, one with both rows within tolerance, the
\* other with none: the counts 2 and 1, the pass rates 100.0 and 0.0
C23_Witness ==
    /\ Done("process_cmm_data")
    /\ lines = <<HeaderA, CoordPass, CoordPass, SeparatorLine, HeaderB, CoordFail>>
    /\ Len(ret.df.rows) = 3
    /\ DOMAIN ret.summary.rows = {TagCircle1, TagT2}
    /\ ret.summary.rows[TagCircle1].coordinate_count = 2
    /\ ret.summary.rows[TagCircle1].pass_count = 2
    /\ ret.summary.rows[TagCircle1].pass_rate = Num(100 * Pow10(RateDigits))
    /\ ret.summary.rows[TagT2].coordinate_count = 1
    /\ ret.summary.rows[TagT2].pass_count = 0
    /\ ret.summary.rows[TagT2].pass_rate = Num(0)

\* a text without records: no summary row, and the counts sum to 0
C23_NoRecords ==
    /\ Done("process_cmm_data")
    /\ lines # <<>>
    /\ Len(ret.df.rows) = 0
    /\ DOMAIN ret.summary.rows = {}

\* C24: in every row parse_lines_to_dataframe returns tolerance_utilization
\* is zero or more, also when the upper tolerance is smaller than the lower
\* tolerance and the tolerance range is negative
C24_NonNegative ==
    Done("parse_lines_to_dataframe") =>
        \A i \in 1..Len(ret.df.rows) :
            /\ Value(i, "tolerance_utilization") # NaN
            /\ Value(i, "tolerance_utilization")[1] >= 0

\* tolerance_utilization is zero or more in the rows whose upper tolerance
\* is not smaller than the lower tolerance, and zero or less in the others
C24_SignOfRange ==
    Done("parse_lines_to_dataframe") =>
        \A i \in 1..Len(ret.df.rows) :
            /\ Value(i, "tolerance_utilization") # NaN
            /\ IF Value(i, "upper_tolerance")[1] >= Value(i, "lower_tolerance")[1]
               THEN Value(i, "tolerance_utilization")[1] >= 0
               ELSE Value(i, "tolerance_utilization")[1] <= 0

\* upper tolerance 0.02, lower tolerance 0.064, deviation 0.015: the range
\* is -0.044 and the utilization -68.18
C24_NegativeRange ==
    /\ Done("parse_lines_to_dataframe")
    /\ lines = <<HeaderA, CoordOf(<<"0", ".", "0", "2">>, <<"0", ".", "0", "6", "4">>,
                                  <<"0", ".", "0", "1", "5">>)>>
    /\ Len(ret.df.rows) = 1
    /\ Value(1, "tolerance_range") = Num(0 - FloatOf(<<"0", ".", "0", "4", "4">>))
    /\ Value(1, "tolerance_utilization") = Num(0 - 6818)

====
